---- MODULE Spec2Model ----
(***************************************************************************)
(* Verification model of the DSME core: the asynchronous logger            *)
(* (src/dsme/logging.c), the mainloop (src/dsme/mainloop.c), the heartbeat *)
(* plugin (src/modules/heartbeat.c) and the server's main()                *)
(* (src/dsme/dsme-server.c).                                               *)
(*                                                                         *)
(* SpecLog  : main thread and logger thread around the ring buffer.        *)
(* SpecMain : the mainloop run/quit life cycle, the signal handler, the    *)
(*            heartbeat input callback and the message queue drain.        *)
(***************************************************************************)
EXTENDS Integers, Sequences, FiniteSets, TLC

(***************************************************************************)
(* Program constants                                                       *)
(***************************************************************************)
DSME_LOG_ENTRY_COUNT == 128

EXIT_SUCCESS == 0

EXIT_FAILURE == 1

(***************************************************************************)
(* Bounds of the model                                                     *)
(***************************************************************************)
\* Queue calls made while the logger thread is stalled (not scheduled, or
\* stuck behind a slow sink); the worker takes its first step after them.
Burst == 200

\* Queue calls explored after the stalled burst.
MaxExtra == 3

\* Queue calls explored before dsme_log_init().
MaxEarly == 1

MaxCalls == Burst + MaxExtra

\* Messages broadcast on the internal queue.
MaxMsgs == 3

\* Signals delivered to the process.
MaxSignals == 2

\* Heartbeat callbacks dispatched.
MaxBeats == 2

\* Calls of dsme_main_loop_run.
MaxRuns == 2

\* Client connections accepted on the listening socket.
MaxClients == 1

\* Messages broadcast on the module bus.
MaxBus == 4

\* Rule and verbosity operations on the log filter.
MaxRuleOps == 3

\* Connections accept() returns on the listening socket.
MaxConns == 2

\* Messages received from clients.
MaxFrames == 2

\* Timers created by the plugins.
MaxTimers == 1

\* Queue calls whose messages are followed to the sink: the first ones.
MaxTracked == 3

\* Passes of the mainloop.
MaxIters == 2

\* Message handlers the dispatcher calls.
MaxHandlers == 1

\* Source ids glib hands out to the timers of the plugins.
MaxIds == 5

\* The highest valid battery level, standing for 100 percent.
MaxLevel == 3

(***************************************************************************)
(* Logger state (src/dsme/logging.c)                                       *)
(***************************************************************************)
VARIABLES
    ring_buffer,          \* log_entry_t ring_buffer[DSME_LOG_ENTRY_COUNT]
    write_count_pvt,      \* entries written, main thread only
    read_count_pvt,       \* entries consumed, logger thread only
    thread_enabled,       \* volatile int thread_enabled
    thread_running,       \* volatile int thread_running
    ring_buffer_event_fd, \* "none" is -1, "open" is a live eventfd
    event_count,          \* counter held by the eventfd object
    worker_tid,           \* TRUE when worker_tid != 0
    overflow,             \* static bool overflow in dsme_log_queue
    skipped,              \* static unsigned skipped in dsme_log_queue
    reported,             \* static bool reported in dsme_log_notify_worker
    lstage,               \* how far main() got with the logger
    lpc,                  \* where the main thread is inside the logger
    closing,              \* the current queue call is the one of dsme_log_close
    calls,                \* number of dsme_log_queue calls made so far
    entry,                \* slot the main thread holds in 'entry', or -1
    at,                   \* loop variable of the flush in dsme_log_close
    wpc,                  \* where the logger thread is
    cnt,                  \* local 'cnt' of dsme_log_thread
    wentry,               \* slot the logger thread holds in 'entry', or -1
    early_out,            \* for each message queued before dsme_log_init, in
                          \* order: how often it was written to the sink
    unwritten,            \* messages stored in the ring buffer and not yet
                          \* written to the sink, by call number
    rewritten,            \* messages written to the sink more than once
    last_out              \* call number of the last message written

sinkvars == <<unwritten, rewritten, last_out>>

logvars == <<ring_buffer, write_count_pvt, read_count_pvt, thread_enabled,
             thread_running, ring_buffer_event_fd, event_count, worker_tid,
             overflow, skipped, reported, lstage, lpc, closing, calls,
             entry, at, wpc, cnt, wentry, early_out, sinkvars>>

(***************************************************************************)
(* Mainloop state (src/dsme/mainloop.c), the heartbeat plugin's watch      *)
(* (src/modules/heartbeat.c) and the internal message queue.               *)
(***************************************************************************)
VARIABLES
    state,                \* main_loop_state_t state
    mainloop_exit_code,   \* int mainloop_exit_code
    mainloop_wakeup_fd,   \* "none" is {-1,-1}, "open" is a live pipe
    mainloop_wakeup_id,   \* TRUE when the wake-up watch is installed
    pipe_bytes,           \* bytes written to the wake-up pipe, never read
    watch_id,             \* heartbeat: TRUE when the stdin watch is installed
    msg_queue,            \* queued internal messages, oldest first
    mpc,                  \* where the main thread is
    qcode,                \* argument of the dsme_main_loop_quit in progress
    qret,                 \* where the main thread continues after that quit
    status,               \* -1 while the process lives, else its exit status
    quits,                \* arguments of all dsme_main_loop_quit calls, in order
    hb,                   \* what the last heartbeat callback saw
    runs,                 \* calls of dsme_main_loop_run
    loops,                \* times the while loop of run was entered
    sent,                 \* messages broadcast so far
    signals,              \* signals delivered so far
    beats,                \* heartbeat callbacks dispatched so far
    served                \* sources dispatched in this g_main_context_iteration

(***************************************************************************)
(* main() of src/dsme/dsme-server.c around the mainloop: start-up steps,   *)
(* the client socket (src/dsme/dsmesock.c) and the teardown.               *)
(***************************************************************************)
VARIABLES
    handlers,             \* TRUE once signal() has installed signal_handler
    failed_steps,         \* start-up steps that failed so far
    exit_code,            \* local 'exit_code' of main()
    listen_id,            \* dsmesock: TRUE when the accept watch is installed
    clients,              \* dsmesock: number of live client connections
    modules_loaded,       \* TRUE between modulebase_init and modulebase_shutdown
    teardown,             \* teardown steps main() has done, in order
    got_term              \* SIGINT/SIGTERM was handled while state was RUNNING

bootvars == <<handlers, failed_steps, exit_code, listen_id, clients,
              modules_loaded, teardown, got_term>>

mainvars == <<state, mainloop_exit_code, mainloop_wakeup_fd,
              mainloop_wakeup_id, pipe_bytes, watch_id, msg_queue, mpc, qcode,
              qret, status, quits, hb, runs, loops, sent, signals, beats,
              served, bootvars>>

(***************************************************************************)
(* The module bus (declared in src/include/dsme/modulebase.h and           *)
(* src/include/dsme/modules.h): loaded modules, queued messages and the    *)
(* current-module context.                                                 *)
(***************************************************************************)
VARIABLES
    modules,              \* loaded modules, in delivery (load) order
    bqueue,               \* queued messages, oldest first
    current,              \* the current module, "core" outside of any module
    saved,                \* the dispatcher's saved 'previous module'
    bpc,                  \* where the dispatcher is
    delivered,            \* queued messages handed to a handler, in order
    dropped,              \* queued messages dropped without a handler call
    gone,                 \* modules that have been unloaded
    bsent                 \* messages broadcast so far

busvars == <<modules, bqueue, current, saved, bpc, delivered, dropped, gone,
             bsent>>

(***************************************************************************)
(* The log filter (src/dsme/logging.c): include/exclude rules, the cache   *)
(* of evaluated keys and the verbosity.                                    *)
(***************************************************************************)
VARIABLES
    dsme_log_rule_list,   \* rules, most recently added first
    dsme_log_rule_cache,  \* made: the pointer is not null; tab: key -> state
    verbosity,            \* logopt.verbosity
    rule_ops,             \* rule and verbosity operations made so far
    asked,                \* arguments of the last dsme_log_p_ call
    answer,               \* what that call returned
    cleared_rules,        \* the rules the last operation removed
    prio_ev               \* the last priority stored: where, the argument
                          \* and the value stored

rulevars == <<dsme_log_rule_list, dsme_log_rule_cache, verbosity, rule_ops,
              asked, answer, cleared_rules, prio_ev>>

(***************************************************************************)
(* The client socket (src/dsme/dsmesock.c).  A connection is numbered by   *)
(* the order in which accept() returned it.                                *)
(***************************************************************************)
VARIABLES
    sock_listen_id,       \* listen_id: the accept watch id is set
    accept_src,           \* the accept watch is installed in the mainloop
    read_and_queue_f,     \* the read callback is set
    sock_clients,         \* clients: the list of live connections, newest first
    conn,                 \* per connection: fd, allocated object, watch id
                          \* kept in 'channel', ucred
    client_src,           \* connections whose input watch is installed
    nconn,                \* connections accept() has returned so far
    spc,                  \* position of the main thread in the socket code
    sock_ev,              \* the last callback that ran, with its inputs
    sock_bcast,           \* the last message broadcast from the socket
    frames                \* messages received so far

sockvars == <<sock_listen_id, accept_src, read_and_queue_f, sock_clients,
              conn, client_src, nconn, spc, sock_ev, sock_bcast, frames>>

(***************************************************************************)
(* Mainloop callbacks that enter a module context (src/dsme/timers.c,      *)
(* src/modules/heartbeat.c, src/modules/dbusautoconnector.c,               *)
(* src/modules/dsme_dbus.c).  The current module is 'current' of the bus.  *)
(***************************************************************************)
VARIABLES
    gpc,                  \* where the main thread is
    gstack,               \* the 'caller' locals of the callbacks on the stack
    timers,               \* the timergate_t objects created so far
    ntimers,              \* timers created so far
    ready_timers,         \* timers the running mainloop pass has yet to dispatch
    ready_io,             \* I/O sources the running pass has yet to dispatch
    iter,                 \* mainloop passes started so far
    running,              \* the timer whose callback is running, 0 for none
    gate_ev,              \* the last callback of the running pass: module
                          \* before, module inside, exit path
    flag_file,            \* the dbus-failed flag file exists
    gate_bcast,           \* the message that callback broadcast
    hb_watch,             \* heartbeat.c watch_id is set
    systembus_watcher_id, \* the inotify watch of the bus socket is installed
    systembus_state,      \* systembus_state of dbusautoconnector.c
    connect_timer_id,     \* connect_timer_id, 0 for none
    dbus_up,              \* the message filter is installed on the connection
    gate_quit,            \* dsme_main_loop_quit was called
    handled               \* message handlers called so far

gatevars == <<gpc, gstack, timers, ntimers, ready_timers, ready_io, iter,
              running, gate_ev, flag_file, gate_bcast, hb_watch,
              systembus_watcher_id, systembus_state, connect_timer_id,
              dbus_up, gate_quit, handled>>

(***************************************************************************)
(* Plugin state (src/modules/dbusautoconnector.c,                          *)
(* src/modules/batterytracker.c, src/modules/alarmtracker.c, the handler   *)
(* of DBUS_CONNECT in src/modules/dbusproxy.c).  The timers of the plugins *)
(* are glib sources named by their ids.                                    *)
(***************************************************************************)
VARIABLES
    sources,              \* per source id: the handle variable of the timer
                          \* attached under that id, "none" when there is none
    timer_id,             \* the handle variables of the plugins
    plug_bus_state,       \* systembus_state of dbusautoconnector.c
    plug_msgs,            \* D-Bus connection messages waiting in the queue
    conn_msg,             \* the last of DBUS_CONNECTED and DBUS_DISCONNECT
                          \* handled since the socket was last seen to appear
    dsme_battery_level,   \* batterytracker.c
    dsme_charger_state,   \* batterytracker.c
    dsme_state,           \* batterytracker.c
    alarm_active,         \* batterytracker.c
    min_level,            \* config_level_data[DSME_BATTERY_CONFIG_WARNING]
    shutdown_requested,   \* static of battery_empty_rethink_cb
    plug_ev               \* the last plugin step: what ran, what it
                          \* broadcast, and the handle it gave to
                          \* dsme_destroy_timer

plugvars == <<sources, timer_id, plug_bus_state, plug_msgs, conn_msg,
              dsme_battery_level, dsme_charger_state, dsme_state,
              alarm_active, min_level, shutdown_requested, plug_ev>>

iovars == <<sockvars, gatevars, plugvars>>

vars == <<logvars, mainvars, busvars, rulevars, iovars>>

(***************************************************************************)
(* Log entries: the text of a caller's message is represented by the       *)
(* number of the queue call that produced it, the overflow notice by its   *)
(* "%u messages lost" argument.                                            *)
(***************************************************************************)
EmptyEntry == [kind |-> "none", val |-> 0]

MsgEntry(n) == [kind |-> "msg", val |-> n]

LostEntry(n) == [kind |-> "lost", val |-> n]

Slot(count) == count % DSME_LOG_ENTRY_COUNT

buffered_count == write_count_pvt - read_count_pvt

\* Variants of the full test: off by one, and left out.
RingFull_gt(b) == b > DSME_LOG_ENTRY_COUNT

RingFull_never(b) == FALSE

\* if( buffered >= DSME_LOG_ENTRY_COUNT )
RingFull(b) == b >= DSME_LOG_ENTRY_COUNT

\* Variant of the hold test: off by one.
OverflowHold_gt(b) == b > (DSME_LOG_ENTRY_COUNT * 7) \div 8

\* if( buffered >= DSME_LOG_ENTRY_COUNT * 7 / 8 )
OverflowHold(b) == b >= (DSME_LOG_ENTRY_COUNT * 7) \div 8

\* Variant: the dropped message is not counted.
SkippedInc_none(s) == s

\* ++skipped
SkippedInc(s) == s + 1

\* Variant: the notice counts the message that is about to be stored.
NoticeEntry_plus(s) == LostEntry(s + 1)

\* log_entry_format(entry, LOG_ERR, ..., "logging ringbuffer overflow; %u
\* messages lost", skipped)
NoticeEntry(s) == LostEntry(s)

InitLog ==
    /\ ring_buffer = [i \in 0..(DSME_LOG_ENTRY_COUNT - 1) |-> EmptyEntry]
    /\ write_count_pvt = 0
    /\ read_count_pvt = 0
    /\ thread_enabled = TRUE
    /\ thread_running = FALSE
    /\ ring_buffer_event_fd = "none"
    /\ event_count = 0
    /\ worker_tid = FALSE
    /\ overflow = FALSE
    /\ skipped = 0
    /\ reported = FALSE
    /\ lstage = "start"
    /\ lpc = "idle"
    /\ closing = FALSE
    /\ calls = 0
    /\ entry = -1
    /\ at = 0
    /\ wpc = "none"
    /\ cnt = 0
    /\ wentry = -1
    /\ early_out = <<>>
    /\ unwritten = {}
    /\ rewritten = {}
    /\ last_out = 0

\* dsme_log_routine(e): the entry is written to the sink.  Only the messages
\* queued before dsme_log_init are counted; they are the first ones, so
\* their call numbers are 1..Len(early_out).
SinkWrite(e) ==
    IF e.kind = "msg" /\ e.val <= Len(early_out)
    THEN [early_out EXCEPT ![e.val] = @ + 1]
    ELSE early_out

\* dsme_log_routine(e), for the messages that are followed: it is no
\* longer unwritten; it was written again when it was not unwritten.
SinkRecord(e) ==
    IF e.kind = "msg" /\ e.val <= MaxTracked
    THEN /\ unwritten' = unwritten \ {e.val}
         /\ rewritten' = IF e.val \in unwritten THEN rewritten
                         ELSE rewritten \cup {e.val}
         /\ last_out' = e.val
    ELSE UNCHANGED sinkvars

\* Variant: the flush starts at the write position, so nothing is flushed.
FlushStart_w == write_count_pvt

\* for( guint at = read_count_get(); ...
FlushStart == read_count_pvt

\* Where the main thread continues when dsme_log_queue returns.
Returned(cl) == IF cl THEN "stop" ELSE "idle"

(***************************************************************************)
(* dsme_log_queue, up to the point where it either returns (message        *)
(* dropped) or starts formatting into a ring buffer slot.                  *)
(***************************************************************************)
QueueEnter(cl) ==
    LET b == buffered_count IN
    /\ calls < MaxCalls
    /\ calls' = calls + 1
    /\ closing' = cl
    /\ IF RingFull(b)
       THEN /\ overflow' = TRUE
            /\ skipped' = SkippedInc(skipped)
            /\ lpc' = Returned(cl)
            /\ entry' = -1
       ELSE IF overflow /\ OverflowHold(b)
       THEN /\ overflow' = overflow
            /\ skipped' = SkippedInc(skipped)
            /\ lpc' = Returned(cl)
            /\ entry' = -1
       ELSE /\ overflow' = overflow
            /\ skipped' = skipped
            /\ lpc' = IF overflow THEN "fmt_lost" ELSE "fmt_msg"
            /\ entry' = Slot(write_count_pvt)

Queue ==
    /\ lpc = "idle"
    /\ lstage \in {"start", "inited", "opened"}
    /\ lstage = "start" => calls < MaxEarly
    /\ QueueEnter(FALSE)
    /\ UNCHANGED <<ring_buffer, write_count_pvt, read_count_pvt,
                   thread_enabled, thread_running, ring_buffer_event_fd,
                   event_count, worker_tid, reported, lstage, at, wpc, cnt,
                   wentry>>
    /\ UNCHANGED <<early_out, sinkvars>>
    /\ UNCHANGED <<mainvars, busvars, rulevars, iovars>>

(***************************************************************************)
(* The entry is complete: write_count_inc() and dsme_log_notify_worker().  *)
(* wr_ok is the outcome of write() on the eventfd.                         *)
(***************************************************************************)
AfterEntry(pc, w) ==
    IF pc \in {"fmt_lost", "out_lost"}
    THEN /\ overflow' = FALSE
         /\ skipped' = 0
         /\ entry' = Slot(w)
         /\ lpc' = "fmt_msg"
    ELSE /\ UNCHANGED <<overflow, skipped>>
         /\ entry' = -1
         /\ lpc' = Returned(closing)

QueueStore(wr_ok) ==
    LET ack == thread_enabled /\ ring_buffer_event_fd = "open" /\ wr_ok
        failed == thread_enabled /\ ring_buffer_event_fd = "open" /\ ~wr_ok
    IN
    /\ lpc \in {"fmt_lost", "fmt_msg"}
    /\ ring_buffer' = [ring_buffer EXCEPT ![entry] =
                          IF lpc = "fmt_lost" THEN NoticeEntry(skipped)
                                              ELSE MsgEntry(calls)]
    /\ write_count_pvt' = write_count_pvt + 1
    /\ reported' = (reported \/ (thread_enabled /\ ring_buffer_event_fd = "none"))
    /\ thread_enabled' = (thread_enabled /\ ~failed)
    /\ event_count' = IF ack THEN event_count + 1 ELSE event_count
    /\ IF ack
       THEN AfterEntry(lpc, write_count_pvt')
       ELSE /\ lpc' = IF lpc = "fmt_lost" THEN "out_lost" ELSE "out_msg"
            /\ UNCHANGED <<overflow, skipped, entry>>
    /\ UNCHANGED <<read_count_pvt, thread_running, ring_buffer_event_fd,
                   worker_tid, lstage, closing, calls, at, wpc, cnt,
                   wentry>>
    /\ early_out' = IF lpc = "fmt_msg" /\ lstage = "start"
                    THEN Append(early_out, 0) ELSE early_out
    /\ unwritten' = IF lpc = "fmt_msg" /\ calls <= MaxTracked
                    THEN unwritten \cup {calls} ELSE unwritten
    /\ UNCHANGED <<rewritten, last_out>>
    /\ UNCHANGED <<mainvars, busvars, rulevars, iovars>>

\* dsme_log_routine(entry) called from dsme_log_notify_worker has returned.
QueueOut ==
    /\ lpc \in {"out_lost", "out_msg"}
    /\ AfterEntry(lpc, write_count_pvt)
    /\ UNCHANGED <<ring_buffer, write_count_pvt, read_count_pvt,
                   thread_enabled, thread_running, ring_buffer_event_fd,
                   event_count, worker_tid, reported, lstage, closing, calls, at, wpc, cnt, wentry>>
    /\ early_out' = SinkWrite(ring_buffer[entry])
    /\ SinkRecord(ring_buffer[entry])
    /\ UNCHANGED <<mainvars, busvars, rulevars, iovars>>

(***************************************************************************)
(* dsme_log_init: ok is the outcome of eventfd().  main() goes straight to *)
(* dsme_log_close when it fails.                                           *)
(***************************************************************************)
LogInit(ok) ==
    /\ lpc = "idle"
    /\ lstage = "start"
    /\ ring_buffer_event_fd' = IF ok THEN "open" ELSE "none"
    /\ lstage' = IF ok THEN "inited" ELSE "failed"
    /\ UNCHANGED <<ring_buffer, write_count_pvt, read_count_pvt,
                   thread_enabled, thread_running, event_count, worker_tid,
                   overflow, skipped, reported, lpc, closing, calls,
                   entry, at, wpc, cnt, wentry>>
    /\ UNCHANGED <<early_out, sinkvars>>
    /\ UNCHANGED <<mainvars, busvars, rulevars, iovars>>

(***************************************************************************)
(* dsme_log_open: ok is whether the sink was opened and pthread_create     *)
(* succeeded; dbg is whether dsme_log_p_ lets the closing debug message    *)
(* through.  main() ignores the return value.                              *)
(***************************************************************************)
LogOpen(ok, dbg) ==
    /\ lpc = "idle"
    /\ lstage = "inited"
    /\ lstage' = "opened"
    /\ worker_tid' = ok
    /\ wpc' = IF ok THEN "read" ELSE "none"
    /\ thread_running' = ok
    /\ IF ok /\ dbg
       THEN QueueEnter(FALSE)
       ELSE UNCHANGED <<calls, closing, overflow, skipped, lpc, entry>>
    /\ UNCHANGED <<ring_buffer, write_count_pvt, read_count_pvt,
                   thread_enabled, ring_buffer_event_fd, event_count,
                   reported, at, cnt, wentry>>
    /\ UNCHANGED <<early_out, sinkvars>>
    /\ UNCHANGED <<mainvars, busvars, rulevars, iovars>>

(***************************************************************************)
(* dsme_log_close: dsme_log_clear_rules() queues "log rules cleared", then *)
(* dsme_log_stop(), then the flush loop.                                   *)
(***************************************************************************)
LogClose ==
    /\ lpc = "idle"
    /\ lstage \in {"failed", "inited", "opened"}
    /\ QueueEnter(TRUE)
    /\ UNCHANGED <<ring_buffer, write_count_pvt, read_count_pvt,
                   thread_enabled, thread_running, ring_buffer_event_fd,
                   event_count, worker_tid, reported, lstage, at, wpc, cnt,
                   wentry>>
    /\ UNCHANGED <<early_out, sinkvars>>
    /\ UNCHANGED <<mainvars, busvars, rulevars, iovars>>

\* dsme_log_stop up to pthread_cancel/pthread_timedjoin_np.
LogStop ==
    /\ lpc = "stop"
    /\ thread_enabled' = FALSE
    /\ ring_buffer_event_fd' = "none"
    /\ event_count' = 0
    /\ worker_tid' = FALSE
    /\ IF worker_tid
       THEN lpc' = "join" /\ UNCHANGED at
       ELSE lpc' = "flush" /\ at' = FlushStart
    /\ UNCHANGED <<ring_buffer, write_count_pvt, read_count_pvt,
                   thread_running, overflow, skipped, reported, lstage,
                   closing, calls, entry, wpc, cnt, wentry>>
    /\ UNCHANGED <<early_out, sinkvars>>
    /\ UNCHANGED <<mainvars, busvars, rulevars, iovars>>

(***************************************************************************)
(* pthread_cancel + pthread_timedjoin_np(3 s) have returned.  A worker     *)
(* inside read() is cancelled there; one that already exited is joined;    *)
(* one that is still between read() calls when the 3 seconds are over      *)
(* keeps running.                                                          *)
(***************************************************************************)
LogJoin ==
    /\ lpc = "join"
    /\ lpc' = "flush"
    /\ at' = FlushStart
    /\ wpc' = IF wpc = "read" THEN "cancelled" ELSE wpc
    /\ UNCHANGED <<ring_buffer, write_count_pvt, read_count_pvt,
                   thread_enabled, thread_running, ring_buffer_event_fd,
                   event_count, worker_tid, overflow, skipped, reported,
                   lstage, closing, calls, entry, cnt, wentry>>
    /\ UNCHANGED <<early_out, sinkvars>>
    /\ UNCHANGED <<mainvars, busvars, rulevars, iovars>>

\* One pass of the flush loop: dsme_log_routine(&ring_buffer[at % N]); ++at
LogFlush ==
    /\ lpc = "flush"
    /\ at # write_count_pvt
    /\ at' = at + 1
    /\ UNCHANGED <<ring_buffer, write_count_pvt, read_count_pvt,
                   thread_enabled, thread_running, ring_buffer_event_fd,
                   event_count, worker_tid, overflow, skipped, reported,
                   lstage, lpc, closing, calls, entry, wpc, cnt,
                   wentry>>
    /\ early_out' = SinkWrite(ring_buffer[Slot(at)])
    /\ SinkRecord(ring_buffer[Slot(at)])
    /\ UNCHANGED <<mainvars, busvars, rulevars, iovars>>

\* The flush loop is over; the sink is closed and main() returns.
LogClosed ==
    /\ lpc = "flush"
    /\ at = write_count_pvt
    /\ lpc' = "closed"
    /\ UNCHANGED <<ring_buffer, write_count_pvt, read_count_pvt,
                   thread_enabled, thread_running, ring_buffer_event_fd,
                   event_count, worker_tid, overflow, skipped, reported,
                   lstage, closing, calls, entry, at, wpc, cnt,
                   wentry>>
    /\ UNCHANGED <<early_out, sinkvars>>
    /\ UNCHANGED <<mainvars, busvars, rulevars, iovars>>

(***************************************************************************)
(* dsme_log_thread                                                         *)
(***************************************************************************)
\* The EXIT label: thread_running = 0; thread_enabled = 0; return.
WorkerExit ==
    /\ wpc' = "exit"
    /\ thread_running' = FALSE
    /\ thread_enabled' = FALSE
    /\ cnt' = 0
    /\ wentry' = -1

WorkerAlive == lpc # "closed" /\ calls >= Burst

\* Variant: the batch is one longer than the counter that was read.
BatchAfterRead_more(counter) == counter + 1

\* read(ring_buffer_event_fd, &cnt, sizeof cnt) hands over the counter.
BatchAfterRead(counter) == counter

\* read() on the eventfd returned: rc = "ok" with the counter, or "err".
WorkerRead(rc) ==
    /\ WorkerAlive
    /\ wpc = "read"
    /\ rc = "ok" => (ring_buffer_event_fd = "open" /\ event_count > 0)
    /\ IF rc = "ok" /\ thread_enabled
       THEN /\ cnt' = BatchAfterRead(event_count)
            /\ event_count' = 0
            /\ wpc' = "loop"
            /\ UNCHANGED <<thread_running, thread_enabled, wentry>>
       ELSE /\ WorkerExit
            /\ event_count' = IF rc = "ok" THEN 0 ELSE event_count
    /\ UNCHANGED <<ring_buffer, write_count_pvt, read_count_pvt,
                   ring_buffer_event_fd, worker_tid, overflow, skipped,
                   reported, lstage, lpc, closing, calls, entry, at>>
    /\ UNCHANGED <<early_out, sinkvars>>
    /\ UNCHANGED <<mainvars, busvars, rulevars, iovars>>

\* Head of the for(; cnt; --cnt) body: the out-of-sync test, then the
\* worker takes ring_buffer[read_count % N] and enters dsme_log_routine.
WorkerPop ==
    /\ WorkerAlive
    /\ wpc = "loop"
    /\ IF buffered_count = 0
       THEN WorkerExit
       ELSE /\ wentry' = Slot(read_count_pvt)
            /\ wpc' = "routine"
            /\ UNCHANGED <<thread_running, thread_enabled, cnt>>
    /\ UNCHANGED <<ring_buffer, write_count_pvt, read_count_pvt,
                   ring_buffer_event_fd, event_count, worker_tid, overflow,
                   skipped, reported, lstage, lpc, closing, calls,
                   entry, at>>
    /\ UNCHANGED <<early_out, sinkvars>>
    /\ UNCHANGED <<mainvars, busvars, rulevars, iovars>>

\* dsme_log_routine returned: read_count_inc(), the thread_enabled test and
\* the --cnt of the loop.
WorkerDone ==
    /\ WorkerAlive
    /\ wpc = "routine"
    /\ read_count_pvt' = read_count_pvt + 1
    /\ IF ~thread_enabled
       THEN WorkerExit
       ELSE /\ cnt' = cnt - 1
            /\ wentry' = -1
            /\ wpc' = IF cnt = 1 THEN "read" ELSE "loop"
            /\ UNCHANGED <<thread_running, thread_enabled>>
    /\ UNCHANGED <<ring_buffer, write_count_pvt, ring_buffer_event_fd,
                   event_count, worker_tid, overflow, skipped, reported,
                   lstage, lpc, closing, calls, entry, at>>
    /\ early_out' = SinkWrite(ring_buffer[wentry])
    /\ SinkRecord(ring_buffer[wentry])
    /\ UNCHANGED <<mainvars, busvars, rulevars, iovars>>

(***************************************************************************)
(* Mainloop (src/dsme/mainloop.c)                                          *)
(***************************************************************************)
NoBeat == [cond |-> "none", rd |-> "none", wr |-> "none"]

InitMain ==
    /\ state = "NOT_STARTED"
    /\ mainloop_exit_code = EXIT_SUCCESS
    /\ mainloop_wakeup_fd = "none"
    /\ mainloop_wakeup_id = FALSE
    /\ pipe_bytes = 0
    /\ watch_id = FALSE
    /\ msg_queue = <<>>
    /\ mpc = "main"
    /\ qcode = 0
    /\ qret = "none"
    /\ status = -1
    /\ quits = <<>>
    /\ hb = NoBeat
    /\ runs = 0
    /\ loops = 0
    /\ sent = 0
    /\ signals = 0
    /\ beats = 0
    /\ served = {}
    /\ handlers = FALSE
    /\ failed_steps = {}
    /\ exit_code = EXIT_FAILURE
    /\ listen_id = FALSE
    /\ clients = 0
    /\ modules_loaded = FALSE
    /\ teardown = <<>>
    /\ got_term = FALSE

\* Variant: run does not look at the state.
RunGuard_any(s) == TRUE

\* if (state == NOT_STARTED) in dsme_main_loop_run
RunGuard(s) == s = "NOT_STARTED"

\* if (state == RUNNING) in dsme_main_loop_quit
QuitGuard(s) == s = "RUNNING"

\* if (mainloop_exit_code < exit_code) mainloop_exit_code = exit_code;
ExitCodeAfter(old, code) == IF old < code THEN code ELSE old

\* Variant: run is given no iteration hook.
HookInstalled_no == FALSE

\* main() passes process_message_queue, so 'if (iteration)' is taken.
HookInstalled == TRUE

\* if (state == RUNNING) in front of g_main_context_iteration
WaitGuard(s) == s = "RUNNING"

(***************************************************************************)
(* The body of dsme_main_loop_quit once the state test has passed: state,  *)
(* exit code, one byte to the wake-up pipe; _exit(EXIT_FAILURE) when the   *)
(* write fails, which it does when the pipe does not exist.  'ret' is      *)
(* where the main thread is once quit has returned.                        *)
(***************************************************************************)
QuitBody(code, ret) ==
    /\ state' = "STOPPED"
    /\ mainloop_exit_code' = ExitCodeAfter(mainloop_exit_code, code)
    /\ IF mainloop_wakeup_fd = "open"
       THEN /\ pipe_bytes' = pipe_bytes + 1
            /\ mpc' = ret
            /\ UNCHANGED status
       ELSE /\ status' = EXIT_FAILURE
            /\ mpc' = "exited"
            /\ UNCHANGED pipe_bytes

\* dsme_main_loop_quit called on the main thread: the state test; the rest
\* of the function is QuitCommit, so that a signal can arrive in between.
MainQuit(code, ret) ==
    /\ quits' = Append(quits, code)
    /\ IF QuitGuard(state)
       THEN mpc' = "quit" /\ qcode' = code /\ qret' = ret
       ELSE mpc' = ret /\ UNCHANGED <<qcode, qret>>

QuitCommit ==
    /\ mpc = "quit"
    /\ QuitBody(qcode, qret)
    /\ UNCHANGED <<mainloop_wakeup_fd, mainloop_wakeup_id, watch_id,
                   msg_queue, qcode, qret, quits, hb, runs, loops, sent,
                   signals, beats, served>>
    /\ UNCHANGED <<logvars, bootvars, busvars, rulevars, iovars>>

(***************************************************************************)
(* signal_handler (src/dsme/dsme-server.c): runs to completion between two *)
(* steps of the main thread.                                               *)
(***************************************************************************)
Signal(sig) ==
    /\ status = -1
    /\ handlers
    /\ signals < MaxSignals
    /\ signals' = signals + 1
    /\ got_term' = (got_term \/ (sig \in {"SIGINT", "SIGTERM"} /\ state = "RUNNING"))
    /\ IF sig \in {"SIGINT", "SIGTERM"}
       THEN /\ quits' = Append(quits, EXIT_SUCCESS)
            /\ IF QuitGuard(state)
               THEN QuitBody(EXIT_SUCCESS, mpc)
               ELSE UNCHANGED <<state, mainloop_exit_code, pipe_bytes, mpc,
                                status>>
       ELSE UNCHANGED <<quits, state, mainloop_exit_code, pipe_bytes, mpc,
                        status>>
    /\ UNCHANGED <<mainloop_wakeup_fd, mainloop_wakeup_id, watch_id,
                   msg_queue, qcode, qret, hb, runs, loops, sent, beats,
                   served>>
    /\ UNCHANGED <<handlers, failed_steps, exit_code, listen_id, clients,
                   modules_loaded, teardown>>
    /\ UNCHANGED <<logvars, busvars, rulevars, iovars>>

(***************************************************************************)
(* main() up to dsme_main_loop_run (src/dsme/dsme-server.c).  Each step    *)
(* takes the outcome of the call it makes; a step that fails is recorded   *)
(* in failed_steps.  The Fatal definitions say what main() does about it.  *)
(***************************************************************************)
\* if( !dsme_log_init() ) goto EXIT;
LogInitFatal == TRUE

\* signal() results are not looked at.
SignalFatal == FALSE

\* if (!protect_from_oom()) fprintf(stderr, ...);
OomFatal == FALSE

\* sched_getparam / sched_setparam / setpriority failures: fprintf(stderr, ...)
SchedFatal == FALSE

\* dsme_log_open(...): the return value is dropped.
LogOpenFatal == FALSE

\* Variant: a failed modulebase_init is only reported.
ModulesFatal_no == FALSE

\* if (!modulebase_init(module_names)) goto EXIT;
ModulesFatal == TRUE

\* if (dsmesock_listen(...) == -1) goto EXIT;
ListenFatal == TRUE

\* if (chdir("/") == -1) goto EXIT;
ChdirFatal == TRUE

\* One step of main(): on failure the step is recorded and, when fatal,
\* main() jumps to the EXIT label.
BootStep(from, name, ok, fatal, to) ==
    /\ mpc = from
    /\ failed_steps' = IF ok THEN failed_steps ELSE failed_steps \cup {name}
    /\ mpc' = IF ~ok /\ fatal THEN "EXIT" ELSE to

BootLogInit(ok) ==
    /\ BootStep("main", "log_init", ok, LogInitFatal, "b_signals")
    /\ UNCHANGED <<handlers, exit_code, listen_id, clients, modules_loaded,
                   teardown, got_term, watch_id, status>>
    /\ UNCHANGED <<state, mainloop_exit_code, mainloop_wakeup_fd,
                   mainloop_wakeup_id, pipe_bytes, msg_queue, qcode, qret,
                   quits, hb, runs, loops, sent, signals, beats, served>>
    /\ UNCHANGED <<logvars, busvars, rulevars, iovars>>

\* signal(SIGINT/SIGTERM/SIGHUP/SIGPIPE, signal_handler)
BootSignals(ok) ==
    /\ BootStep("b_signals", "signals", ok, SignalFatal, "b_oom")
    /\ handlers' = ok
    /\ UNCHANGED <<exit_code, listen_id, clients, modules_loaded,
                   teardown, got_term, watch_id, status>>
    /\ UNCHANGED <<state, mainloop_exit_code, mainloop_wakeup_fd,
                   mainloop_wakeup_id, pipe_bytes, msg_queue, qcode, qret,
                   quits, hb, runs, loops, sent, signals, beats, served>>
    /\ UNCHANGED <<logvars, busvars, rulevars, iovars>>

BootOom(ok) ==
    /\ BootStep("b_oom", "oom", ok, OomFatal, "b_sched")
    /\ UNCHANGED <<handlers, exit_code, listen_id, clients, modules_loaded,
                   teardown, got_term, watch_id, status>>
    /\ UNCHANGED <<state, mainloop_exit_code, mainloop_wakeup_fd,
                   mainloop_wakeup_id, pipe_bytes, msg_queue, qcode, qret,
                   quits, hb, runs, loops, sent, signals, beats, served>>
    /\ UNCHANGED <<logvars, busvars, rulevars, iovars>>

BootSched(ok) ==
    /\ BootStep("b_sched", "sched", ok, SchedFatal, "b_parse")
    /\ UNCHANGED <<handlers, exit_code, listen_id, clients, modules_loaded,
                   teardown, got_term, watch_id, status>>
    /\ UNCHANGED <<state, mainloop_exit_code, mainloop_wakeup_fd,
                   mainloop_wakeup_id, pipe_bytes, msg_queue, qcode, qret,
                   quits, hb, runs, loops, sent, signals, beats, served>>
    /\ UNCHANGED <<logvars, busvars, rulevars, iovars>>

(***************************************************************************)
(* parse_options and the module_names test.  "help" prints the usage and   *)
(* calls exit(EXIT_SUCCESS); an unknown option or a stray argument calls   *)
(* exit(EXIT_FAILURE); without any -p option main() goes to EXIT.          *)
(***************************************************************************)
\* Command lines explored: a valid one, one with an unknown option and one
\* without -p; a --help request is not a start-up and is left out.
CliInputs == {"ok", "bad_option", "no_modules"}

BootParse(cli) ==
    /\ mpc = "b_parse"
    /\ failed_steps' = IF cli \in {"bad_option", "no_modules"}
                       THEN failed_steps \cup {"parse"} ELSE failed_steps
    /\ mpc' = CASE cli = "ok" -> "b_log_open"
                [] cli = "no_modules" -> "EXIT"
                [] OTHER -> "exited"
    /\ status' = CASE cli = "help" -> EXIT_SUCCESS
                   [] cli = "bad_option" -> EXIT_FAILURE
                   [] OTHER -> status
    /\ UNCHANGED <<handlers, exit_code, listen_id, clients, modules_loaded,
                   teardown, got_term, watch_id>>
    /\ UNCHANGED <<state, mainloop_exit_code, mainloop_wakeup_fd,
                   mainloop_wakeup_id, pipe_bytes, msg_queue, qcode, qret,
                   quits, hb, runs, loops, sent, signals, beats, served>>
    /\ UNCHANGED <<logvars, busvars, rulevars, iovars>>

BootLogOpen(ok) ==
    /\ BootStep("b_log_open", "log_open", ok, LogOpenFatal, "b_modules")
    /\ UNCHANGED <<handlers, exit_code, listen_id, clients, modules_loaded,
                   teardown, got_term, watch_id, status>>
    /\ UNCHANGED <<state, mainloop_exit_code, mainloop_wakeup_fd,
                   mainloop_wakeup_id, pipe_bytes, msg_queue, qcode, qret,
                   quits, hb, runs, loops, sent, signals, beats, served>>
    /\ UNCHANGED <<logvars, busvars, rulevars, iovars>>

\* modulebase_init: the plugins are loaded and their init hooks run; the
\* heartbeat plugin's module_init installs the stdin watch.
BootModules(ok) ==
    /\ BootStep("b_modules", "modules", ok, ModulesFatal, "b_listen")
    /\ modules_loaded' = ok
    /\ watch_id' = ok
    /\ UNCHANGED <<handlers, exit_code, listen_id, clients, teardown,
                   got_term, status>>
    /\ UNCHANGED <<state, mainloop_exit_code, mainloop_wakeup_fd,
                   mainloop_wakeup_id, pipe_bytes, msg_queue, qcode, qret,
                   quits, hb, runs, loops, sent, signals, beats, served>>
    /\ UNCHANGED <<logvars, busvars, rulevars, iovars>>

BootListen(ok) ==
    /\ BootStep("b_listen", "listen", ok, ListenFatal, "b_chdir")
    /\ listen_id' = ok
    /\ UNCHANGED <<handlers, exit_code, clients, modules_loaded, teardown,
                   got_term, watch_id, status>>
    /\ UNCHANGED <<state, mainloop_exit_code, mainloop_wakeup_fd,
                   mainloop_wakeup_id, pipe_bytes, msg_queue, qcode, qret,
                   quits, hb, runs, loops, sent, signals, beats, served>>
    /\ UNCHANGED <<logvars, busvars, rulevars, iovars>>

BootChdir(ok) ==
    /\ BootStep("b_chdir", "chdir", ok, ChdirFatal, "startup")
    /\ UNCHANGED <<handlers, exit_code, listen_id, clients, modules_loaded,
                   teardown, got_term, watch_id, status>>
    /\ UNCHANGED <<state, mainloop_exit_code, mainloop_wakeup_fd,
                   mainloop_wakeup_id, pipe_bytes, msg_queue, qcode, qret,
                   quits, hb, runs, loops, sent, signals, beats, served>>
    /\ UNCHANGED <<logvars, busvars, rulevars, iovars>>

\* A plugin's init hook broadcasts before main() enters the mainloop.
StartupBroadcast ==
    /\ mpc = "startup"
    /\ sent < MaxMsgs
    /\ sent' = sent + 1
    /\ msg_queue' = Append(msg_queue, [type |-> "MSG", id |-> sent + 1])
    /\ UNCHANGED <<state, mainloop_exit_code, mainloop_wakeup_fd,
                   mainloop_wakeup_id, pipe_bytes, watch_id, mpc, qcode, qret,
                   status, quits, hb, runs, loops, signals, beats, served>>
    /\ UNCHANGED <<logvars, bootvars, busvars, rulevars, iovars>>

\* dsme_main_loop_run is called: the state test and state = RUNNING.
RunCall ==
    /\ mpc \in {"startup", "returned"}
    /\ runs < MaxRuns
    /\ runs' = runs + 1
    /\ IF RunGuard(state)
       THEN state' = "RUNNING" /\ mpc' = "run_init"
       ELSE mpc' = "returned" /\ UNCHANGED state
    /\ UNCHANGED <<mainloop_exit_code, mainloop_wakeup_fd,
                   mainloop_wakeup_id, pipe_bytes, watch_id, msg_queue, qcode,
                   qret, status, quits, hb, loops, sent, signals, beats,
                   served>>
    /\ UNCHANGED <<logvars, bootvars, busvars, rulevars, iovars>>

\* g_main_loop_new and mainloop_wakeup_init; exit(EXIT_FAILURE) on failure.
RunInit(ok) ==
    /\ mpc = "run_init"
    /\ IF ok
       THEN /\ mainloop_wakeup_fd' = "open"
            /\ mainloop_wakeup_id' = TRUE
            /\ loops' = loops + 1
            /\ mpc' = "loop"
            /\ UNCHANGED status
       ELSE /\ status' = EXIT_FAILURE
            /\ mpc' = "exited"
            /\ UNCHANGED <<mainloop_wakeup_fd, mainloop_wakeup_id, loops>>
    /\ UNCHANGED <<state, mainloop_exit_code, pipe_bytes, watch_id,
                   msg_queue, qcode, qret, quits, hb, runs, sent, signals,
                   beats, served>>
    /\ UNCHANGED <<logvars, bootvars, busvars, rulevars, iovars>>

\* while (state == RUNNING) { if (iteration) iteration(); ...
LoopHead ==
    /\ mpc = "loop"
    /\ mpc' = IF state = "RUNNING"
              THEN (IF HookInstalled THEN "hook" ELSE "check")
              ELSE "run_exit"
    /\ UNCHANGED <<state, mainloop_exit_code, mainloop_wakeup_fd,
                   mainloop_wakeup_id, pipe_bytes, watch_id, msg_queue, qcode,
                   qret, status, quits, hb, runs, loops, sent, signals, beats,
                   served>>
    /\ UNCHANGED <<logvars, bootvars, busvars, rulevars, iovars>>

(***************************************************************************)
(* process_message_queue: the oldest message is taken off the queue and    *)
(* handed to its handlers.  A handler may do nothing more, broadcast a new *)
(* message, or ask the mainloop to quit (as runlevel.c does).              *)
(***************************************************************************)
Drain(effect) ==
    /\ mpc = "hook"
    /\ msg_queue # <<>>
    /\ effect = "broadcast" => sent < MaxMsgs
    /\ msg_queue' = IF effect = "broadcast"
                    THEN Append(Tail(msg_queue), [type |-> "MSG", id |-> sent + 1])
                    ELSE Tail(msg_queue)
    /\ sent' = IF effect = "broadcast" THEN sent + 1 ELSE sent
    /\ IF effect = "quit"
       THEN MainQuit(EXIT_FAILURE, "hook")
       ELSE UNCHANGED <<mpc, qcode, qret, quits>>
    /\ UNCHANGED <<state, mainloop_exit_code, mainloop_wakeup_fd,
                   mainloop_wakeup_id, pipe_bytes, watch_id, status, hb, runs,
                   loops, signals, beats, served>>
    /\ UNCHANGED <<logvars, bootvars, busvars, rulevars, iovars>>

\* process_message_queue finds the queue empty and returns.
DrainEnd ==
    /\ mpc = "hook"
    /\ msg_queue = <<>>
    /\ mpc' = "check"
    /\ UNCHANGED <<state, mainloop_exit_code, mainloop_wakeup_fd,
                   mainloop_wakeup_id, pipe_bytes, watch_id, msg_queue, qcode,
                   qret, status, quits, hb, runs, loops, sent, signals, beats,
                   served>>
    /\ UNCHANGED <<logvars, bootvars, busvars, rulevars, iovars>>

\* if (state == RUNNING) g_main_context_iteration(ctx, TRUE);
Check ==
    /\ mpc = "check"
    /\ mpc' = IF WaitGuard(state) THEN "poll" ELSE "loop"
    /\ UNCHANGED <<state, mainloop_exit_code, mainloop_wakeup_fd,
                   mainloop_wakeup_id, pipe_bytes, watch_id, msg_queue, qcode,
                   qret, status, quits, hb, runs, loops, sent, signals, beats,
                   served>>
    /\ UNCHANGED <<logvars, bootvars, busvars, rulevars, iovars>>

\* The main thread is inside g_main_context_iteration.
InIteration == mpc \in {"poll", "dispatch"}

\* mainloop_wakeup_cb: the wake-up pipe is readable.
WakeupCb ==
    /\ InIteration
    /\ mainloop_wakeup_id
    /\ pipe_bytes > 0
    /\ mainloop_wakeup_id' = FALSE
    /\ mpc' = "dispatch"
    /\ served' = served \cup {"wakeup"}
    /\ UNCHANGED <<state, mainloop_exit_code, mainloop_wakeup_fd, pipe_bytes,
                   watch_id, msg_queue, qcode, qret, status, quits, hb, runs,
                   loops, sent, signals, beats>>
    /\ UNCHANGED <<logvars, bootvars, busvars, rulevars, iovars>>

(***************************************************************************)
(* emit_heartbeat_message (src/modules/heartbeat.c).  c is the condition   *)
(* the watch fired with, r the outcome of read(), w the outcome of the     *)
(* write() loop once it no longer fails with EINTR.                        *)
(***************************************************************************)
BeatInputs ==
    {[cond |-> "ERR", rd |-> "none", wr |-> "none"]}
    \cup {[cond |-> "IN", rd |-> r, wr |-> "none"] : r \in {"eof", "eintr", "error"}}
    \cup {[cond |-> "IN", rd |-> "byte", wr |-> w] : w \in {"ok", "fail"}}

keep_going(in) == in.cond = "IN" /\ in.rd \in {"eintr", "byte"}

HeartbeatCb(in) ==
    /\ InIteration
    /\ watch_id
    /\ "heartbeat" \notin served
    /\ beats < MaxBeats
    /\ beats' = beats + 1
    /\ hb' = in
    /\ served' = served \cup {"heartbeat"}
    /\ IF in.rd = "byte"
       THEN /\ msg_queue' = Append(msg_queue, [type |-> "HEARTBEAT", id |-> sent + 1])
            /\ sent' = sent + 1
       ELSE UNCHANGED <<msg_queue, sent>>
    /\ IF keep_going(in)
       THEN /\ mpc' = "dispatch"
            /\ UNCHANGED <<watch_id, qcode, qret, quits>>
       ELSE /\ watch_id' = FALSE
            /\ MainQuit(EXIT_FAILURE, "dispatch")
    /\ UNCHANGED <<state, mainloop_exit_code, mainloop_wakeup_fd,
                   mainloop_wakeup_id, pipe_bytes, status, runs, loops,
                   signals>>
    /\ UNCHANGED <<logvars, bootvars, busvars, rulevars, iovars>>

\* Any other source (client socket, timer, D-Bus) fires and broadcasts.
SourceCb ==
    /\ InIteration
    /\ "source" \notin served
    /\ sent < MaxMsgs
    /\ sent' = sent + 1
    /\ msg_queue' = Append(msg_queue, [type |-> "MSG", id |-> sent + 1])
    /\ served' = served \cup {"source"}
    /\ mpc' = "dispatch"
    /\ UNCHANGED <<state, mainloop_exit_code, mainloop_wakeup_fd,
                   mainloop_wakeup_id, pipe_bytes, watch_id, qcode, qret,
                   status, quits, hb, runs, loops, signals, beats>>
    /\ UNCHANGED <<logvars, bootvars, busvars, rulevars, iovars>>

\* g_main_context_iteration returns after having dispatched.
IterationReturn ==
    /\ mpc = "dispatch"
    /\ mpc' = "loop"
    /\ served' = {}
    /\ UNCHANGED <<state, mainloop_exit_code, mainloop_wakeup_fd,
                   mainloop_wakeup_id, pipe_bytes, watch_id, msg_queue, qcode,
                   qret, status, quits, hb, runs, loops, sent, signals, beats>>
    /\ UNCHANGED <<logvars, bootvars, busvars, rulevars, iovars>>

\* The loop is over: mainloop_wakeup_quit(), g_main_loop_unref, return.
RunExit ==
    /\ mpc = "run_exit"
    /\ mainloop_wakeup_id' = FALSE
    /\ mainloop_wakeup_fd' = "none"
    /\ pipe_bytes' = 0
    /\ mpc' = "returned"
    /\ UNCHANGED <<state, mainloop_exit_code, watch_id, msg_queue, qcode,
                   qret, status, quits, hb, runs, loops, sent, signals, beats,
                   served>>
    /\ UNCHANGED <<logvars, bootvars, busvars, rulevars, iovars>>

(***************************************************************************)
(* main() after dsme_main_loop_run has returned (src/dsme/dsme-server.c).  *)
(***************************************************************************)
\* dsmesock_shutdown: the accept watch is removed, every client is closed.
SockShutdown ==
    /\ mpc = "returned"
    /\ listen_id' = FALSE
    /\ clients' = 0
    /\ teardown' = Append(teardown, "socket")
    /\ mpc' = "sock_down"
    /\ UNCHANGED <<exit_code, modules_loaded, watch_id, status>>
    /\ UNCHANGED <<state, mainloop_exit_code, mainloop_wakeup_fd,
                   mainloop_wakeup_id, pipe_bytes, msg_queue, qcode, qret,
                   quits, hb, runs, loops, sent, signals, beats, served,
                   handlers, failed_steps, got_term>>
    /\ UNCHANGED <<logvars, busvars, rulevars, iovars>>

\* modulebase_shutdown: the plugins are unloaded; the heartbeat plugin's
\* module_fini removes the stdin watch.
ModulesShutdown ==
    /\ mpc = "sock_down"
    /\ modules_loaded' = FALSE
    /\ watch_id' = FALSE
    /\ teardown' = Append(teardown, "modules")
    /\ mpc' = "mods_down"
    /\ UNCHANGED <<exit_code, listen_id, clients, status>>
    /\ UNCHANGED <<state, mainloop_exit_code, mainloop_wakeup_fd,
                   mainloop_wakeup_id, pipe_bytes, msg_queue, qcode, qret,
                   quits, hb, runs, loops, sent, signals, beats, served,
                   handlers, failed_steps, got_term>>
    /\ UNCHANGED <<logvars, busvars, rulevars, iovars>>

\* exit_code = dsme_main_loop_exit_code();
ReadExitCode ==
    /\ mpc = "mods_down"
    /\ exit_code' = mainloop_exit_code
    /\ mpc' = "EXIT"
    /\ UNCHANGED <<listen_id, clients, modules_loaded, teardown, watch_id,
                   status>>
    /\ UNCHANGED <<state, mainloop_exit_code, mainloop_wakeup_fd,
                   mainloop_wakeup_id, pipe_bytes, msg_queue, qcode, qret,
                   quits, hb, runs, loops, sent, signals, beats, served,
                   handlers, failed_steps, got_term>>
    /\ UNCHANGED <<logvars, busvars, rulevars, iovars>>

\* EXIT: dsme_log_close(); return exit_code;
MainExit ==
    /\ mpc = "EXIT"
    /\ teardown' = Append(teardown, "logger")
    /\ status' = exit_code
    /\ mpc' = "exited"
    /\ UNCHANGED <<exit_code, listen_id, clients, modules_loaded, watch_id>>
    /\ UNCHANGED <<state, mainloop_exit_code, mainloop_wakeup_fd,
                   mainloop_wakeup_id, pipe_bytes, msg_queue, qcode, qret,
                   quits, hb, runs, loops, sent, signals, beats, served,
                   handlers, failed_steps, got_term>>
    /\ UNCHANGED <<logvars, busvars, rulevars, iovars>>

\* accept_client (src/dsme/dsmesock.c): a client connects.
AcceptClient ==
    /\ InIteration
    /\ listen_id
    /\ "accept" \notin served
    /\ clients < MaxClients
    /\ clients' = clients + 1
    /\ served' = served \cup {"accept"}
    /\ mpc' = "dispatch"
    /\ UNCHANGED <<state, mainloop_exit_code, mainloop_wakeup_fd,
                   mainloop_wakeup_id, pipe_bytes, watch_id, msg_queue, qcode,
                   qret, status, quits, hb, runs, loops, sent, signals, beats>>
    /\ UNCHANGED <<handlers, failed_steps, exit_code, listen_id,
                   modules_loaded, teardown, got_term>>
    /\ UNCHANGED <<logvars, busvars, rulevars, iovars>>

NextMain ==
    \/ \E ok \in BOOLEAN : BootLogInit(ok)
    \/ \E ok \in BOOLEAN : BootSignals(ok)
    \/ \E ok \in BOOLEAN : BootOom(ok)
    \/ \E ok \in BOOLEAN : BootSched(ok)
    \/ \E cli \in CliInputs : BootParse(cli)
    \/ \E ok \in BOOLEAN : BootLogOpen(ok)
    \/ \E ok \in BOOLEAN : BootModules(ok)
    \/ \E ok \in BOOLEAN : BootListen(ok)
    \/ \E ok \in BOOLEAN : BootChdir(ok)
    \/ SockShutdown
    \/ ModulesShutdown
    \/ ReadExitCode
    \/ MainExit
    \/ AcceptClient
    \/ StartupBroadcast
    \/ RunCall
    \/ \E ok \in BOOLEAN : RunInit(ok)
    \/ LoopHead
    \/ \E effect \in {"none", "broadcast", "quit"} : Drain(effect)
    \/ DrainEnd
    \/ Check
    \/ WakeupCb
    \/ \E in \in BeatInputs : HeartbeatCb(in)
    \/ SourceCb
    \/ IterationReturn
    \/ RunExit
    \/ QuitCommit
    \/ \E sig \in {"SIGINT", "SIGTERM", "SIGHUP", "SIGPIPE"} : Signal(sig)

(***************************************************************************)
(* The module bus: modulebase_load_module, modulebase_unload_module, the   *)
(* broadcast functions, modulebase_enter_module and                        *)
(* modulebase_process_message_queue.  A broadcast queues one copy of the   *)
(* message for each module loaded at that moment, in delivery order, with  *)
(* the current module as sender; the dispatcher takes the oldest queued    *)
(* message and calls its target's handler inside the target's context.     *)
(***************************************************************************)
BusModules == {"m1", "m2"}

InitBus ==
    /\ modules = <<>>
    /\ bqueue = <<>>
    /\ current = "core"
    /\ saved = "core"
    /\ bpc = "idle"
    /\ delivered = <<>>
    /\ dropped = {}
    /\ gone = {}
    /\ bsent = 0

Loaded == {modules[i] : i \in 1..Len(modules)}

\* The copies of message 'id' for the modules in 'targets', sent by 'from'
\* during handler invocation 'inv' (0 outside of handlers).
Copies(id, from, inv, targets) ==
    [i \in 1..Len(targets) |->
        [id |-> id, sender |-> from, to |-> targets[i], inv |-> inv]]

\* Variant: new messages jump the queue.
Enqueue_front(q, msgs) == msgs \o q

\* New messages go to the tail of the queue.
Enqueue(q, msgs) == q \o msgs

\* Variant: the sender is not taken from the current-module context.
SenderOf_core(cur) == "core"

\* The sender of a broadcast is the current module.
SenderOf(cur) == cur

\* Variant: a queued message is dispatched whether or not its target is
\* still loaded.
TargetAlive_any(m) == TRUE

\* A queued message is dispatched only if its target is still loaded.
TargetAlive(m) == m \in Loaded

RemoveModule(seq, m) == SelectSeq(seq, LAMBDA x : x # m)

\* Variant: the module being loaded is already a target of its own init-time
\* broadcast.
InitTargets_self(mods, m) == Append(mods, m)

\* The modules a broadcast from the init hook of m is queued for: those
\* loaded before m.
InitTargets(mods, m) == mods

\* modulebase_load_module: the init hook runs inside the new module's
\* context and may broadcast (bc); the broadcast reaches the modules loaded
\* before it.  A handle is never used again after unload.
BusLoad(m, bc) ==
    /\ bpc = "idle"
    /\ m \notin Loaded
    /\ m \notin gone
    /\ bc => bsent < MaxBus
    /\ modules' = Append(modules, m)
    /\ IF bc
       THEN /\ bqueue' = Enqueue(bqueue, Copies(bsent + 1, SenderOf(m), 0,
                                                InitTargets(modules, m)))
            /\ bsent' = bsent + 1
       ELSE UNCHANGED <<bqueue, bsent>>
    /\ UNCHANGED <<current, saved, delivered, dropped, gone, bpc>>
    /\ UNCHANGED <<logvars, mainvars, rulevars, iovars>>

\* modulebase_unload_module, called from the core or from another module's
\* handler.
BusUnload(m) ==
    /\ bpc \in {"idle", "handler"}
    /\ m \in Loaded
    /\ m # current
    /\ modules' = RemoveModule(modules, m)
    /\ gone' = gone \cup {m}
    /\ UNCHANGED <<bqueue, current, saved, delivered, dropped, bpc, bsent>>
    /\ UNCHANGED <<logvars, mainvars, rulevars, iovars>>

\* A broadcast made outside of any handler (core context) or inside one.
BusBroadcast ==
    /\ bpc \in {"idle", "handler"}
    /\ bsent < MaxBus
    /\ bqueue' = Enqueue(bqueue,
                         Copies(bsent + 1, SenderOf(current),
                                IF bpc = "handler" THEN Len(delivered) ELSE 0,
                                modules))
    /\ bsent' = bsent + 1
    /\ UNCHANGED <<modules, current, saved, delivered, dropped, gone, bpc>>
    /\ UNCHANGED <<logvars, mainvars, rulevars, iovars>>

\* The mainloop calls modulebase_process_message_queue.
BusProcess ==
    /\ bpc = "idle"
    /\ bqueue # <<>>
    /\ bpc' = "drain"
    /\ UNCHANGED <<modules, bqueue, current, saved, delivered, dropped, gone,
                   bsent>>
    /\ UNCHANGED <<logvars, mainvars, rulevars, iovars>>

\* The oldest queued message is taken; its target's handler is entered
\* with prev = enter_module(target), or the message is dropped.
BusDispatch ==
    /\ bpc = "drain"
    /\ bqueue # <<>>
    /\ bqueue' = Tail(bqueue)
    /\ IF TargetAlive(Head(bqueue).to)
       THEN /\ saved' = current
            /\ current' = Head(bqueue).to
            /\ delivered' = Append(delivered, Head(bqueue))
            /\ bpc' = "handler"
            /\ UNCHANGED dropped
       ELSE /\ dropped' = dropped \cup {Head(bqueue)}
            /\ UNCHANGED <<saved, current, delivered, bpc>>
    /\ UNCHANGED <<modules, gone, bsent>>
    /\ UNCHANGED <<logvars, mainvars, rulevars, iovars>>

\* The handler returns: enter_module(prev).
HandlerReturn ==
    /\ bpc = "handler"
    /\ current' = saved
    /\ bpc' = "drain"
    /\ UNCHANGED <<modules, bqueue, saved, delivered, dropped, gone, bsent>>
    /\ UNCHANGED <<logvars, mainvars, rulevars, iovars>>

\* The queue is empty: modulebase_process_message_queue returns.
BusProcessEnd ==
    /\ bpc = "drain"
    /\ bqueue = <<>>
    /\ bpc' = "idle"
    /\ UNCHANGED <<modules, bqueue, current, saved, delivered, dropped, gone,
                   bsent>>
    /\ UNCHANGED <<logvars, mainvars, rulevars, iovars>>

NextBus ==
    \/ \E m \in BusModules, bc \in BOOLEAN : BusLoad(m, bc)
    \/ \E m \in BusModules : BusUnload(m)
    \/ BusBroadcast
    \/ BusProcess
    \/ BusDispatch
    \/ HandlerReturn
    \/ BusProcessEnd

(***************************************************************************)
(* The log filter (src/dsme/logging.c).  Strings are sequences of          *)
(* characters.                                                             *)
(***************************************************************************)
LOG_EMERG == 0

LOG_NOTICE == 5

LOG_DEBUG == 7

\* char key[256] in dsme_log_evaluate
KeySize == 256

\* File names asked about: a short one, and one long enough for
\* "file:func" to need more than KeySize - 1 characters.
ShortFile == <<"a">>

LongFile == [i \in 1..(KeySize - 2) |-> "a"]

FileNames == {ShortFile, LongFile}

FuncNames == {<<"f">>, <<"g">>}

\* Glob patterns given to the include/exclude operations.
Patterns == {<<"*", ":", "f">>, <<"a", ":", "*">>}

Priorities == {3, 6}

\* Arguments given to dsme_log_set_verbosity.
VerbosityArgs == {-1, 6, 9}

\* dsme_log_rule_cache == 0
NoCache == [made |-> FALSE, tab |-> {}]

NoCall == [prio |-> -1, file |-> <<>>, func |-> <<>>]

NoPrio == [op |-> "none", in |-> 0, out |-> 0]

InitRules ==
    /\ dsme_log_rule_list = <<>>
    /\ dsme_log_rule_cache = NoCache
    /\ verbosity = LOG_NOTICE
    /\ rule_ops = 0
    /\ asked = NoCall
    /\ answer = FALSE
    /\ cleared_rules = <<>>
    /\ prio_ev = NoPrio

\* Variant: a value inside the range is not passed through.
log_prio_cap_edge(prio) ==
    IF prio < LOG_NOTICE THEN LOG_EMERG ELSE LOG_DEBUG

log_prio_cap(prio) ==
    IF prio < LOG_EMERG THEN LOG_EMERG
    ELSE IF prio > LOG_DEBUG THEN LOG_DEBUG
    ELSE prio

\* fnmatch(pattern, string, 0) == 0 for patterns made of literal
\* characters, '?' and '*': p from position i against s from position j.
RECURSIVE fnmatch_at(_, _, _, _)
fnmatch_at(p, s, i, j) ==
    IF i > Len(p) THEN j > Len(s)
    ELSE IF p[i] = "*"
         THEN \E k \in j..(Len(s) + 1) : fnmatch_at(p, s, i + 1, k)
    ELSE /\ j <= Len(s)
         /\ (p[i] = "?" \/ p[i] = s[j])
         /\ fnmatch_at(p, s, i + 1, j + 1)

fnmatch(p, s) == fnmatch_at(p, s, 1, 1)

\* snprintf(key, sizeof key, "%s:%s", file, func): at most KeySize - 1
\* characters are kept.
Key(file, func) ==
    LET full == file \o <<":">> \o func
    IN IF Len(full) > KeySize - 1 THEN SubSeq(full, 1, KeySize - 1) ELSE full

\* g_hash_table_lookup: 0 (LOG_STATE_UNKNOWN) when the key is not there.
CacheLookup(cache, key) ==
    IF \E e \in cache.tab : e.key = key
    THEN (CHOOSE e \in cache.tab : e.key = key).hit
    ELSE "UNKNOWN"

\* g_hash_table_replace
CacheReplace(cache, key, hit) ==
    [made |-> TRUE,
     tab |-> {e \in cache.tab : e.key # key} \cup {[key |-> key, hit |-> hit]}]

\* The for loop of dsme_log_evaluate: the state of the first rule of the
\* list whose pattern matches the key, LOG_STATE_UNKNOWN when none does.
FirstMatch(list, key) ==
    IF \E i \in 1..Len(list) : fnmatch(list[i].pattern, key)
    THEN list[CHOOSE i \in 1..Len(list) :
                /\ fnmatch(list[i].pattern, key)
                /\ \A k \in 1..(i - 1) : ~fnmatch(list[k].pattern, key)].state
    ELSE "UNKNOWN"

\* dsme_log_evaluate: the state it returns.
dsme_log_evaluate(file, func) ==
    IF ~dsme_log_rule_cache.made THEN "DEFAULT"
    ELSE IF CacheLookup(dsme_log_rule_cache, Key(file, func)) # "UNKNOWN"
         THEN CacheLookup(dsme_log_rule_cache, Key(file, func))
    ELSE FirstMatch(dsme_log_rule_list, Key(file, func))

\* dsme_log_evaluate: the cache it leaves behind.
CacheAfterEvaluate(file, func) ==
    IF ~dsme_log_rule_cache.made THEN NoCache
    ELSE IF CacheLookup(dsme_log_rule_cache, Key(file, func)) # "UNKNOWN"
         THEN dsme_log_rule_cache
    ELSE CacheReplace(dsme_log_rule_cache, Key(file, func),
                      FirstMatch(dsme_log_rule_list, Key(file, func)))

\* Variant: adding a rule leaves the cached results in place.
CacheAfterAdd_keep(cache) == [made |-> TRUE, tab |-> cache.tab]

\* g_hash_table_remove_all, or g_hash_table_new_full when there is no cache.
CacheAfterAdd(cache) == [made |-> TRUE, tab |-> {}]

\* Variant: clearing the rules leaves the cache of evaluated keys in place.
CacheAfterClear_keep(cache) == cache

\* g_hash_table_unref(dsme_log_rule_cache), dsme_log_rule_cache = 0
CacheAfterClear(cache) == NoCache

\* g_slist_prepend
ListAfterAdd(list, rule) == <<rule>> \o list

\* dsme_log_p_
dsme_log_p_(prio, file, func) ==
    LET st == dsme_log_evaluate(file, func)
    IN IF dsme_log_rule_cache.made /\ st = "INCLUDED" THEN TRUE
       ELSE IF dsme_log_rule_cache.made /\ st = "EXCLUDED" THEN FALSE
       ELSE prio <= verbosity

\* The dsme_log_queue call that the rule operations start with.
RuleOpLogs ==
    /\ QueueEnter(FALSE)
    /\ UNCHANGED <<ring_buffer, write_count_pvt, read_count_pvt,
                   thread_enabled, thread_running, ring_buffer_event_fd,
                   event_count, worker_tid, reported, lstage, at, wpc, cnt,
                   wentry, early_out, sinkvars>>

\* dsme_log_include / dsme_log_exclude -> dsme_log_add_rule.  The field n of
\* a rule records when it was added; the program does not have it.
RuleAdd(pattern, st) ==
    /\ lpc = "idle"
    /\ rule_ops < MaxRuleOps
    /\ rule_ops' = rule_ops + 1
    /\ RuleOpLogs
    /\ dsme_log_rule_cache' = CacheAfterAdd(dsme_log_rule_cache)
    /\ dsme_log_rule_list' = ListAfterAdd(dsme_log_rule_list,
                                          [pattern |-> pattern, state |-> st,
                                           n |-> rule_ops + 1])
    /\ asked' = NoCall
    /\ answer' = FALSE
    /\ cleared_rules' = <<>>
    /\ UNCHANGED <<verbosity, prio_ev>>
    /\ UNCHANGED <<mainvars, busvars, iovars>>

\* dsme_log_clear_rules
RuleClear ==
    /\ lpc = "idle"
    /\ rule_ops < MaxRuleOps
    /\ rule_ops' = rule_ops + 1
    /\ RuleOpLogs
    /\ dsme_log_rule_list' = <<>>
    /\ dsme_log_rule_cache' = CacheAfterClear(dsme_log_rule_cache)
    /\ asked' = NoCall
    /\ answer' = FALSE
    /\ cleared_rules' = dsme_log_rule_list
    /\ UNCHANGED <<verbosity, prio_ev>>
    /\ UNCHANGED <<mainvars, busvars, iovars>>

\* dsme_log_set_verbosity
SetVerbosity(v) ==
    /\ lpc = "idle"
    /\ rule_ops < MaxRuleOps
    /\ rule_ops' = rule_ops + 1
    /\ IF verbosity # log_prio_cap(v)
       THEN RuleOpLogs
       ELSE UNCHANGED logvars
    /\ verbosity' = log_prio_cap(v)
    /\ prio_ev' = [op |-> "set_verbosity", in |-> v, out |-> log_prio_cap(v)]
    /\ asked' = NoCall
    /\ answer' = FALSE
    /\ cleared_rules' = <<>>
    /\ UNCHANGED <<dsme_log_rule_list, dsme_log_rule_cache>>
    /\ UNCHANGED <<mainvars, busvars, iovars>>

\* dsme_log_open: logopt.verbosity = log_prio_cap(verbosity); the rest of
\* dsme_log_open is LogOpen.
OpenVerbosity(v) ==
    /\ lpc = "idle"
    /\ rule_ops < MaxRuleOps
    /\ rule_ops' = rule_ops + 1
    /\ verbosity' = log_prio_cap(v)
    /\ prio_ev' = [op |-> "open", in |-> v, out |-> log_prio_cap(v)]
    /\ asked' = NoCall
    /\ answer' = FALSE
    /\ cleared_rules' = <<>>
    /\ UNCHANGED <<dsme_log_rule_list, dsme_log_rule_cache>>
    /\ UNCHANGED <<logvars, mainvars, busvars, iovars>>

\* Variant: the priority is stored as given.
EntryPrio_raw(prio) == prio

\* log_entry_vformat: self->prio = log_prio_cap(prio);
EntryPrio(prio) == log_prio_cap(prio)

\* log_entry_vformat for a message of priority prio, as dsme_log_queue
\* calls it on the entry it is about to store.
EntryFormat(prio) ==
    /\ lpc = "idle"
    /\ prio_ev' = [op |-> "entry", in |-> prio, out |-> EntryPrio(prio)]
    /\ UNCHANGED <<dsme_log_rule_list, dsme_log_rule_cache, verbosity,
                   rule_ops, asked, answer, cleared_rules>>
    /\ UNCHANGED <<logvars, mainvars, busvars, iovars>>

\* A call of dsme_log_p_(prio, file, func), as the dsme_log() macro makes it.
Predicate(prio, file, func) ==
    /\ lpc = "idle"
    /\ asked' = [prio |-> prio, file |-> file, func |-> func]
    /\ answer' = dsme_log_p_(prio, file, func)
    /\ dsme_log_rule_cache' = CacheAfterEvaluate(file, func)
    /\ UNCHANGED <<dsme_log_rule_list, verbosity, rule_ops, cleared_rules,
                   prio_ev>>
    /\ UNCHANGED <<logvars, mainvars, busvars, iovars>>

\* The queue call of a rule operation runs to its end.
RuleQueueStore ==
    /\ rule_ops > 0
    /\ \E wr_ok \in BOOLEAN : QueueStore(wr_ok)

RuleQueueOut ==
    /\ rule_ops > 0
    /\ QueueOut

NextRules ==
    \/ \E p \in Patterns, st \in {"INCLUDED", "EXCLUDED"} : RuleAdd(p, st)
    \/ RuleClear
    \/ \E v \in VerbosityArgs : SetVerbosity(v)
    \/ \E prio \in Priorities, file \in FileNames, func \in FuncNames :
          Predicate(prio, file, func)
    \/ RuleQueueStore
    \/ RuleQueueOut

\* The places that store a priority.
NextPrio ==
    \/ \E v \in VerbosityArgs : SetVerbosity(v)
    \/ \E v \in VerbosityArgs : OpenVerbosity(v)
    \/ \E prio \in VerbosityArgs : EntryFormat(prio)
    \/ RuleQueueStore
    \/ RuleQueueOut

(***************************************************************************)
(* The client socket (src/dsme/dsmesock.c) and the read callback of        *)
(* dsme-server.c.  dsmesock_init, dsmesock_receive and dsmesock_close are  *)
(* library calls: init returns a zeroed connection object owning the fd or *)
(* NULL, receive returns a message or NULL, close closes the fd and frees  *)
(* the object.                                                             *)
(***************************************************************************)
LOG_CRIT == 2

LOG_WARNING == 4

\* Credentials the kernel reports for a peer.
Creds == {[pid |-> 42, uid |-> 0, gid |-> 0]}

\* conn->ucred.pid = 0; conn->ucred.uid = -1; conn->ucred.gid = -1;
Sentinel == [pid |-> 0, uid |-> -1, gid |-> -1]

NoCred == [pid |-> 0, uid |-> 0, gid |-> 0]

NoConn == [fd |-> "none", obj |-> FALSE, channel |-> 0, ucred |-> NoCred]

\* Verbosity values and patterns carried by client messages.
SockVerbosities == {3, 5, 9}

SockPatterns == {<<"*", ":", "f">>}

NoMsg == [type |-> "none", v |-> 0, pat |-> <<>>]

SockMsgs ==
    {[type |-> t, v |-> 0, pat |-> <<>>] :
        t \in {"CLOSE", "PROCESSWD_PING", "OTHER", "USE_LOGGING_DEFAULTS"}}
    \cup {[type |-> "SET_LOGGING_VERBOSITY", v |-> v, pat |-> <<>>] :
            v \in SockVerbosities}
    \cup {[type |-> t, v |-> 0, pat |-> p] :
            t \in {"ADD_LOGGING_INCLUDE", "ADD_LOGGING_EXCLUDE"},
            p \in SockPatterns}

\* What the accept watch fires with: the condition, the step of
\* accept_client that fails, and the outcome of getsockopt(SO_PEERCRED).
CredFail == [ok |-> FALSE, val |-> NoCred]

CredResults == {[ok |-> TRUE, val |-> k] : k \in Creds} \cup {CredFail}

AcceptInputs ==
    {[cnd |-> "ERR", fail |-> "none", cred |-> CredFail]}
    \cup {[cnd |-> "IN", fail |-> f, cred |-> CredFail] : f \in {"accept", "init"}}
    \cup {[cnd |-> "IN", fail |-> f, cred |-> k] :
            f \in {"none", "chn", "watch"}, k \in CredResults}

\* What an input watch fires with: the condition and what dsmesock_receive
\* returns (NoMsg for NULL: EOF, read error, bad length or incomplete frame).
HandleInputs ==
    {[cnd |-> "HUP", msg |-> NoMsg]}
    \cup {[cnd |-> c, msg |-> m] : c \in {"IN", "IN_HUP"},
                                   m \in SockMsgs \cup {NoMsg}}

NoEvent == [kind |-> "none", c |-> 0, in |-> [cnd |-> "none"], keep |-> TRUE]

InitSock ==
    /\ sock_listen_id = FALSE
    /\ accept_src = FALSE
    /\ read_and_queue_f = FALSE
    /\ sock_clients = <<>>
    /\ conn = [c \in 1..MaxConns |-> NoConn]
    /\ client_src = {}
    /\ nconn = 0
    /\ spc = "start"
    /\ sock_ev = NoEvent
    /\ sock_bcast = [type |-> "none", sender |-> 0]
    /\ frames = 0

\* Variant: the connection is not found in the list.
remove_client_miss(list, c) == list

\* remove_client
remove_client(list, c) == SelectSeq(list, LAMBDA x : x # c)

\* add_client: g_slist_prepend
add_client(list, c) == <<c>> \o list

\* close_client on the connection object: the watch id is cleared and
\* dsmesock_close closes the fd and frees the object.
ClosedConn(r) == [r EXCEPT !.fd = "closed", !.obj = FALSE, !.channel = 0]

\* Variant: nothing is filled in when getsockopt fails.
Ucred_raw(got) == got.val

\* getsockopt(SO_PEERCRED) and its fallback.
Ucred(got) == IF got.ok THEN got.val ELSE Sentinel

\* Variant: the credentials are taken again when a message is read.
ConnAfterRead_requery(r) == [r EXCEPT !.ucred = Sentinel]

\* receive_and_queue_message hands the connection to dsmesock_receive and to
\* the broadcast; none of them writes conn->ucred, the watch id or the fd.
ConnAfterRead(r) == r

\* receive_and_queue_message: keep_connection
ReceiveKeeps(m) == m.type # "CLOSE"

\* A dsme_log() call made from the socket code.
SockLog(prio) ==
    /\ dsme_log_rule_cache' = CacheAfterEvaluate(ShortFile, <<"f">>)
    /\ IF dsme_log_p_(prio, ShortFile, <<"f">>)
       THEN RuleOpLogs
       ELSE UNCHANGED logvars

\* dsmesock_listen: ok is the outcome of the socket set-up as a whole.
SockListen(ok) ==
    /\ spc = "start"
    /\ sock_listen_id' = ok
    /\ accept_src' = ok
    /\ read_and_queue_f' = ok
    /\ spc' = IF ok THEN "idle" ELSE "failed"
    /\ UNCHANGED <<sock_clients, conn, client_src, nconn, sock_ev, sock_bcast,
                   frames>>
    /\ UNCHANGED <<logvars, mainvars, busvars, rulevars, gatevars, plugvars>>

\* accept_client
AcceptCb(in) ==
    LET c == nconn + 1
        got_fd == in.cnd = "IN" /\ in.fail # "accept"
        got_conn == got_fd /\ in.fail # "init"
        live == got_conn /\ in.fail = "none"
        keep_accepting == in.cnd = "IN"
        made == [fd |-> "open", obj |-> TRUE, channel |-> 0,
                 ucred |-> Ucred(in.cred)]
    IN
    /\ spc = "idle"
    /\ lpc = "idle"
    /\ accept_src
    /\ got_fd => nconn < MaxConns
    /\ nconn' = IF got_fd THEN c ELSE nconn
    /\ conn' = IF ~got_fd THEN conn
               ELSE IF ~got_conn
                    THEN [conn EXCEPT ![c] = [NoConn EXCEPT !.fd = "closed"]]
               ELSE IF live
                    THEN [conn EXCEPT ![c] = [made EXCEPT !.channel = c]]
               ELSE [conn EXCEPT ![c] = ClosedConn(made)]
    /\ sock_clients' = IF live THEN add_client(sock_clients, c)
                       ELSE IF got_conn THEN remove_client(sock_clients, c)
                       ELSE sock_clients
    /\ client_src' = IF live THEN client_src \cup {c} ELSE client_src
    /\ sock_listen_id' = (sock_listen_id /\ keep_accepting)
    /\ accept_src' = (accept_src /\ keep_accepting)
    /\ sock_ev' = [kind |-> "accept", c |-> IF got_fd THEN c ELSE 0, in |-> in,
                    keep |-> keep_accepting]
    /\ IF keep_accepting
       THEN UNCHANGED <<logvars, rulevars>>
       ELSE /\ SockLog(LOG_CRIT)
            /\ UNCHANGED <<dsme_log_rule_list, verbosity, rule_ops, asked,
                           answer, cleared_rules, prio_ev>>
    /\ UNCHANGED <<read_and_queue_f, spc, sock_bcast, frames>>
    /\ UNCHANGED <<mainvars, busvars, gatevars, plugvars>>

\* What receive_and_queue_message does with the message after the
\* broadcast: the log filter operations and the verbosity.
MsgEffect(m) ==
    IF m.type = "PROCESSWD_PING"
    THEN /\ SockLog(LOG_WARNING)
         /\ UNCHANGED <<dsme_log_rule_list, verbosity, rule_ops, asked, answer,
                        cleared_rules, prio_ev>>
    ELSE IF m.type \in {"ADD_LOGGING_INCLUDE", "ADD_LOGGING_EXCLUDE"}
    THEN /\ RuleOpLogs
         /\ dsme_log_rule_cache' = CacheAfterAdd(dsme_log_rule_cache)
         /\ dsme_log_rule_list' =
                ListAfterAdd(dsme_log_rule_list,
                             [pattern |-> m.pat,
                              state |-> IF m.type = "ADD_LOGGING_INCLUDE"
                                        THEN "INCLUDED" ELSE "EXCLUDED",
                              n |-> rule_ops + 1])
         /\ rule_ops' = rule_ops + 1
         /\ cleared_rules' = <<>>
         /\ UNCHANGED <<verbosity, asked, answer, prio_ev>>
    ELSE IF m.type = "USE_LOGGING_DEFAULTS"
    THEN /\ RuleOpLogs
         /\ dsme_log_rule_list' = <<>>
         /\ dsme_log_rule_cache' = CacheAfterClear(dsme_log_rule_cache)
         /\ rule_ops' = rule_ops + 1
         /\ cleared_rules' = dsme_log_rule_list
         /\ UNCHANGED <<verbosity, asked, answer, prio_ev>>
    ELSE IF m.type = "SET_LOGGING_VERBOSITY"
    THEN /\ IF verbosity # log_prio_cap(m.v)
            THEN RuleOpLogs
            ELSE UNCHANGED logvars
         /\ verbosity' = log_prio_cap(m.v)
         /\ prio_ev' = [op |-> "set_verbosity", in |-> m.v,
                        out |-> log_prio_cap(m.v)]
         /\ rule_ops' = rule_ops + 1
         /\ cleared_rules' = <<>>
         /\ UNCHANGED <<dsme_log_rule_list, dsme_log_rule_cache, asked, answer>>
    ELSE UNCHANGED <<logvars, rulevars>>

\* broadcast_internally_from_socket(msg, conn): an unexpected PING goes out
\* as PONG.
SockBroadcast(m, c) ==
    [type |-> IF m.type = "PROCESSWD_PING" THEN "PROCESSWD_PONG" ELSE m.type,
     sender |-> c]

\* handle_client for connection c, with receive_and_queue_message as the
\* read callback.  Returning FALSE removes the input watch.
HandleCb(c, in) ==
    LET has_in == in.cnd \in {"IN", "IN_HUP"}
        reads == has_in /\ read_and_queue_f
        got == reads /\ in.msg # NoMsg
        keep_connection ==
            /\ has_in => (read_and_queue_f /\ ReceiveKeeps(in.msg))
            /\ in.cnd = "IN"
    IN
    /\ spc = "idle"
    /\ lpc = "idle"
    /\ c \in client_src
    /\ got => frames < MaxFrames
    /\ frames' = IF got THEN frames + 1 ELSE frames
    /\ sock_bcast' = IF got THEN SockBroadcast(in.msg, c) ELSE sock_bcast
    /\ IF got THEN MsgEffect(in.msg) ELSE UNCHANGED <<logvars, rulevars>>
    /\ conn' = [conn EXCEPT ![c] = IF keep_connection
                                   THEN ConnAfterRead(conn[c])
                                   ELSE ClosedConn(conn[c])]
    /\ sock_clients' = IF keep_connection THEN sock_clients
                       ELSE remove_client(sock_clients, c)
    /\ client_src' = IF keep_connection THEN client_src ELSE client_src \ {c}
    /\ sock_ev' = [kind |-> "handle", c |-> c, in |-> in,
                    keep |-> keep_connection]
    /\ UNCHANGED <<sock_listen_id, accept_src, read_and_queue_f, nconn, spc>>
    /\ UNCHANGED <<mainvars, busvars, gatevars, plugvars>>

\* dsmesock_shutdown: the accept watch.
ShutdownBegin ==
    /\ spc = "idle"
    /\ lpc = "idle"
    /\ spc' = "closing"
    /\ sock_listen_id' = FALSE
    /\ accept_src' = (accept_src /\ ~sock_listen_id)
    /\ UNCHANGED <<read_and_queue_f, sock_clients, conn, client_src, nconn,
                   sock_ev, sock_bcast, frames>>
    /\ UNCHANGED <<logvars, mainvars, busvars, rulevars, gatevars, plugvars>>

\* One pass of while( clients ) close_client(clients->data);
ShutdownPass ==
    LET c == Head(sock_clients) IN
    /\ spc = "closing"
    /\ sock_clients # <<>>
    /\ sock_clients' = remove_client(sock_clients, c)
    /\ client_src' = IF conn[c].channel # 0
                     THEN client_src \ {conn[c].channel} ELSE client_src
    /\ conn' = [conn EXCEPT ![c] = ClosedConn(conn[c])]
    /\ UNCHANGED <<sock_listen_id, accept_src, read_and_queue_f, nconn, spc,
                   sock_ev, sock_bcast, frames>>
    /\ UNCHANGED <<logvars, mainvars, busvars, rulevars, gatevars, plugvars>>

\* The list is empty: dsmesock_shutdown returns.
ShutdownEnd ==
    /\ spc = "closing"
    /\ sock_clients = <<>>
    /\ spc' = "down"
    /\ UNCHANGED <<sock_listen_id, accept_src, read_and_queue_f, sock_clients,
                   conn, client_src, nconn, sock_ev, sock_bcast, frames>>
    /\ UNCHANGED <<logvars, mainvars, busvars, rulevars, gatevars, plugvars>>

\* The queue call started by a callback runs to its end.
SockQueueStore ==
    /\ spc # "start"
    /\ \E wr_ok \in BOOLEAN : QueueStore(wr_ok)

SockQueueOut ==
    /\ spc # "start"
    /\ QueueOut

NextSock ==
    \/ \E ok \in BOOLEAN : SockListen(ok)
    \/ \E in \in AcceptInputs : AcceptCb(in)
    \/ \E c \in 1..MaxConns, in \in HandleInputs : HandleCb(c, in)
    \/ ShutdownBegin
    \/ ShutdownPass
    \/ ShutdownEnd
    \/ SockQueueStore
    \/ SockQueueOut

(***************************************************************************)
(* Callbacks of the mainloop that enter a module context: timers           *)
(* (src/dsme/timers.c), the heartbeat watch (src/modules/heartbeat.c), the *)
(* system bus watcher (src/modules/dbusautoconnector.c) and the D-Bus      *)
(* message filter (src/modules/dsme_dbus.c).  enter_module(m) makes m the  *)
(* current module and returns the previous one; a pass of                  *)
(* g_main_context_iteration dispatches the sources that were ready when it *)
(* checked them.  The dsme_log calls of these callbacks are left to the    *)
(* logger part.                                                            *)
(***************************************************************************)
GateModules == {"dbusautoconnector", "batterytracker"}

NoTimer == [tg_module |-> "core", made_in |-> "core", tg_interval |-> 0,
            st |-> "none", fresh |-> FALSE, made_at |-> "none",
            cb |-> "none"]

NoGateEvent == [kind |-> "none", entry |-> "core", inside |-> "core",
                path |-> "none", t |-> 0]

\* What the system bus watcher fires with: the condition, the outcome of
\* read() and of the event scan, whether an event named the bus socket, and
\* what access() says about the socket afterwards.
WatcherInputs ==
    {[cnd |-> "ERR", rd |-> "none", update |-> FALSE, present |-> FALSE]}
    \cup {[cnd |-> "IN", rd |-> r, update |-> FALSE, present |-> FALSE] :
            r \in {"error", "eagain", "truncated", "oversized"}}
    \cup {[cnd |-> "IN", rd |-> "events", update |-> u, present |-> p] :
            u \in BOOLEAN, p \in BOOLEAN}

keep_watching(in) == in.cnd = "IN" /\ in.rd \in {"eagain", "events"}

\* The messages the filter sees, and whether fopen() of the flag file works.
FilterInputs ==
    {[type |-> t, fopen |-> FALSE] : t \in {"method", "signal", "error"}}
    \cup {[type |-> "Disconnected", fopen |-> f] : f \in BOOLEAN}

InitGate ==
    /\ gpc = "load"
    /\ gstack = <<>>
    /\ timers = [t \in 1..MaxTimers |-> NoTimer]
    /\ ntimers = 0
    /\ ready_timers = {}
    /\ ready_io = {}
    /\ iter = 0
    /\ running = 0
    /\ gate_ev = NoGateEvent
    /\ flag_file = FALSE
    /\ gate_bcast = "none"
    /\ hb_watch = FALSE
    /\ systembus_watcher_id = FALSE
    /\ systembus_state = "UNKNOWN"
    /\ connect_timer_id = 0
    /\ dbus_up = FALSE
    /\ gate_quit = FALSE
    /\ handled = 0

\* Variant: the timer is attributed to the core whoever creates it.
TimerModule_core(cur) == "core"

\* self->tg_module = current_module();
TimerModule(cur) == cur

\* Variant: a source added during a dispatch joins the sources being
\* dispatched.
ReadyAfterCreate_now(rdy, t, interval) ==
    IF interval = 0 THEN rdy \cup {t} ELSE rdy

\* g_timeout_add_full / g_idle_add_full only attach the source; the sources
\* being dispatched were chosen before.
ReadyAfterCreate(rdy, t, interval) == rdy

\* Variant: the error paths return without enter_module(caller).
Restored_skip(stack, cur, path) ==
    IF path = "error" THEN cur ELSE Head(stack)

\* enter_module(caller) at the end of a callback, reached on every path.
Restored(stack, cur, path) == Head(stack)

\* Variant: the reboot request is sent only when the flag file was written.
FilterBroadcast_flagged(in, was) ==
    IF in.type = "Disconnected" /\ in.fopen THEN "REBOOT_REQ" ELSE was

\* modules_broadcast_internally(&req) in the Disconnected branch.
FilterBroadcast(in, was) ==
    IF in.type = "Disconnected" THEN "REBOOT_REQ" ELSE was

\* timergate_create called with 'cur' as the current module.
NewTimer(cur, interval, ok, cb) ==
    [tg_module |-> TimerModule(cur), made_in |-> cur,
     tg_interval |-> interval, st |-> IF ok THEN "armed" ELSE "gone",
     fresh |-> TRUE, made_at |-> gpc, cb |-> cb]

Armed == {t \in 1..MaxTimers : timers[t].st = "armed"}

\* systembus_state_update with access() saying 'present', called with
\* 'cur' as the current module: connect_timer_start or connect_timer_stop
\* when the state changed.
StateUpdate(present, cur) ==
    LET new == IF present THEN "PRESENT" ELSE "MISSING"
        t == ntimers + 1
    IN
    /\ systembus_state' = new
    /\ IF new = systembus_state
       THEN UNCHANGED <<timers, ntimers, connect_timer_id, ready_timers,
                        gate_bcast>>
       ELSE IF present
       THEN IF connect_timer_id # 0
            THEN UNCHANGED <<timers, ntimers, connect_timer_id, ready_timers,
                             gate_bcast>>
            ELSE /\ timers' = [timers EXCEPT ![t] =
                                  NewTimer(cur, 1000, TRUE, "connect_timer_cb")]
                 /\ ntimers' = t
                 /\ connect_timer_id' = t
                 /\ ready_timers' = ReadyAfterCreate(ready_timers, t, 1000)
                 /\ gate_bcast' = "DBUS_CONNECT"
       ELSE /\ timers' = IF connect_timer_id # 0
                         THEN [timers EXCEPT ![connect_timer_id].st = "gone"]
                         ELSE timers
            /\ ready_timers' = ready_timers \ {connect_timer_id}
            /\ connect_timer_id' = 0
            /\ UNCHANGED <<ntimers, gate_bcast>>

\* heartbeat.c module_init: start_heartbeat installs the watch on stdin.
HeartbeatInit(ok) ==
    /\ gpc = "load"
    /\ gpc' = "load_autoconnector"
    /\ hb_watch' = ok
    /\ UNCHANGED <<gstack, timers, ntimers, ready_timers, ready_io, iter,
                   running, gate_ev, flag_file, gate_bcast,
                   systembus_watcher_id, systembus_state, connect_timer_id,
                   dbus_up, gate_quit, handled>>
    /\ UNCHANGED <<logvars, mainvars, busvars, rulevars, sockvars, plugvars>>

\* dbusautoconnector.c module_init, run by the loader inside the context of
\* the new module: systembus_watcher_start, then systembus_state_update.
AutoconnectorInit(watch_ok, present) ==
    /\ gpc = "load_autoconnector"
    /\ ntimers < MaxTimers
    /\ gpc' = "hook"
    /\ systembus_watcher_id' = watch_ok
    /\ StateUpdate(present, "dbusautoconnector")
    /\ UNCHANGED <<gstack, ready_io, iter, running, gate_ev, flag_file,
                   hb_watch, dbus_up, gate_quit, handled>>
    /\ UNCHANGED <<logvars, mainvars, busvars, rulevars, sockvars, plugvars>>

\* The dispatcher calls a message handler of module m inside m's context.
GateHandlerEnter(m) ==
    /\ gpc = "hook"
    /\ handled < MaxHandlers
    /\ handled' = handled + 1
    /\ gstack' = <<current>> \o gstack
    /\ current' = m
    /\ gpc' = "handler"
    /\ UNCHANGED <<timers, ntimers, ready_timers, ready_io, iter, running,
                   gate_ev, flag_file, gate_bcast, hb_watch,
                   systembus_watcher_id, systembus_state, connect_timer_id,
                   dbus_up, gate_quit>>
    /\ UNCHANGED <<modules, bqueue, saved, bpc, delivered, dropped, gone,
                   bsent>>
    /\ UNCHANGED <<logvars, mainvars, rulevars, sockvars, plugvars>>

\* The handler returns to the dispatcher.
GateHandlerLeave ==
    /\ gpc = "handler"
    /\ current' = Head(gstack)
    /\ gstack' = Tail(gstack)
    /\ gpc' = "hook"
    /\ UNCHANGED <<timers, ntimers, ready_timers, ready_io, iter, running,
                   gate_ev, flag_file, gate_bcast, hb_watch,
                   systembus_watcher_id, systembus_state, connect_timer_id,
                   dbus_up, gate_quit, handled>>
    /\ UNCHANGED <<modules, bqueue, saved, bpc, delivered, dropped, gone,
                   bsent>>
    /\ UNCHANGED <<logvars, mainvars, rulevars, sockvars, plugvars>>

\* Plugin code running in a handler, a timer callback or a D-Bus method
\* creates a timer: timergate_create.  ok: the source id is not 0.
TimerCreate(interval, ok) ==
    LET t == ntimers + 1 IN
    /\ gpc \in {"handler", "timer_cb", "method"}
    /\ ntimers < MaxTimers
    /\ ntimers' = t
    /\ timers' = [timers EXCEPT ![t] = NewTimer(current, interval, ok, "other")]
    /\ ready_timers' = IF ok THEN ReadyAfterCreate(ready_timers, t, interval)
                       ELSE ready_timers
    /\ UNCHANGED <<gpc, gstack, ready_io, iter, running, gate_ev, flag_file,
                   gate_bcast, hb_watch, systembus_watcher_id,
                   systembus_state, connect_timer_id, dbus_up, gate_quit,
                   handled>>
    /\ UNCHANGED <<logvars, mainvars, busvars, rulevars, sockvars, plugvars>>

\* dsme_destroy_timer(t) from plugin code; for the connect timer it is
\* connect_timer_stop in the handlers of dbusautoconnector.
TimerDestroy(t) ==
    /\ gpc \in {"handler", "timer_cb", "method"}
    /\ t \in Armed
    /\ timers[t].cb = "connect_timer_cb" => current = "dbusautoconnector"
    /\ timers' = [timers EXCEPT ![t].st = "gone"]
    /\ ready_timers' = ready_timers \ {t}
    /\ connect_timer_id' = IF connect_timer_id = t THEN 0 ELSE connect_timer_id
    /\ UNCHANGED <<gpc, gstack, ntimers, ready_io, iter, running, gate_ev,
                   flag_file, gate_bcast, hb_watch, systembus_watcher_id,
                   systembus_state, dbus_up, gate_quit, handled>>
    /\ UNCHANGED <<logvars, mainvars, busvars, rulevars, sockvars, plugvars>>

\* dsme_dbus_connect from the handler of DBUS_CONNECT: manager_connect adds
\* the message filter.
DbusConnect ==
    /\ gpc = "handler"
    /\ ~dbus_up
    /\ dbus_up' = TRUE
    /\ UNCHANGED <<gpc, gstack, timers, ntimers, ready_timers, ready_io, iter,
                   running, gate_ev, flag_file, gate_bcast, hb_watch,
                   systembus_watcher_id, systembus_state, connect_timer_id,
                   gate_quit, handled>>
    /\ UNCHANGED <<logvars, mainvars, busvars, rulevars, sockvars, plugvars>>

IoSources ==
    (IF hb_watch THEN {"heartbeat"} ELSE {})
    \cup (IF systembus_watcher_id THEN {"watcher"} ELSE {})
    \cup (IF dbus_up THEN {"dbus"} ELSE {})

\* g_main_context_iteration: the sources found ready are fixed before the
\* first of them is dispatched; an idle source is always ready.
GateIterate(due, io) ==
    /\ gpc = "hook"
    /\ ~gate_quit
    /\ iter < MaxIters
    /\ due \subseteq Armed
    /\ {t \in Armed : timers[t].tg_interval = 0} \subseteq due
    /\ io \subseteq IoSources
    /\ due # {} \/ io # {}
    /\ iter' = iter + 1
    /\ ready_timers' = due
    /\ ready_io' = io
    /\ timers' = [t \in 1..MaxTimers |-> [timers[t] EXCEPT !.fresh = FALSE]]
    /\ gpc' = "dispatch"
    /\ UNCHANGED <<gstack, ntimers, running, gate_ev, flag_file,
                   gate_bcast, hb_watch, systembus_watcher_id,
                   systembus_state, connect_timer_id, dbus_up, gate_quit,
                   handled>>
    /\ UNCHANGED <<logvars, mainvars, busvars, rulevars, sockvars, plugvars>>

\* Every ready source was dispatched: g_main_context_iteration returns.
GateIterationEnd ==
    /\ gpc = "dispatch"
    /\ ready_timers = {}
    /\ ready_io = {}
    /\ gpc' = "hook"
    /\ gate_ev' = NoGateEvent
    /\ gate_bcast' = "none"
    /\ UNCHANGED <<gstack, timers, ntimers, ready_timers, ready_io, iter,
                   running, flag_file, hb_watch, systembus_watcher_id,
                   systembus_state, connect_timer_id, dbus_up, gate_quit,
                   handled>>
    /\ UNCHANGED <<logvars, mainvars, busvars, rulevars, sockvars, plugvars>>

\* A callback is entered: caller = enter_module(m).
EnterCallback(kind, m, t) ==
    /\ gstack' = <<current>> \o gstack
    /\ current' = m
    /\ gpc' = kind
    /\ gate_ev' = [kind |-> kind, entry |-> current, inside |-> m,
                   path |-> "none", t |-> t]
    /\ gate_bcast' = "none"
    /\ UNCHANGED <<modules, bqueue, saved, bpc, delivered, dropped, gone,
                   bsent>>
    /\ UNCHANGED <<logvars, mainvars, rulevars, sockvars, plugvars>>

\* A callback returns: enter_module(caller).
LeaveCallback(path) ==
    /\ current' = Restored(gstack, current, path)
    /\ gstack' = Tail(gstack)
    /\ gpc' = "dispatch"
    /\ gate_ev' = [gate_ev EXCEPT !.path = path]
    /\ UNCHANGED <<modules, bqueue, saved, bpc, delivered, dropped, gone,
                   bsent>>
    /\ UNCHANGED <<logvars, mainvars, rulevars, sockvars, plugvars>>

\* timergate_timeout_cb up to the call of the callback.
TimerEnter(t) ==
    /\ gpc = "dispatch"
    /\ t \in ready_timers
    /\ ready_timers' = ready_timers \ {t}
    /\ running' = t
    /\ EnterCallback("timer_cb", timers[t].tg_module, t)
    /\ UNCHANGED <<timers, ntimers, ready_io, iter, flag_file,
                   hb_watch, systembus_watcher_id, systembus_state,
                   connect_timer_id, dbus_up, gate_quit, handled>>

\* The callback returns rc; the source is destroyed when rc is 0.
\* connect_timer_cb broadcasts DBUS_CONNECT and always returns TRUE.
TimerReturn(rc) ==
    /\ gpc = "timer_cb"
    /\ timers[running].cb = "connect_timer_cb" => rc = 1
    /\ timers' = IF rc = 0 /\ timers[running].st = "armed"
                 THEN [timers EXCEPT ![running].st = "gone"]
                 ELSE timers
    /\ connect_timer_id' = connect_timer_id
    /\ gate_bcast' = IF timers[running].cb = "connect_timer_cb"
                     THEN "DBUS_CONNECT" ELSE gate_bcast
    /\ running' = 0
    /\ LeaveCallback(IF rc = 0 THEN "stop" ELSE "repeat")
    /\ UNCHANGED <<ntimers, ready_timers, ready_io, iter, flag_file, hb_watch,
                   systembus_watcher_id, systembus_state, dbus_up, gate_quit,
                   handled>>

\* emit_heartbeat_message: caller = enter_module(this_module)
HbEnter ==
    /\ gpc = "dispatch"
    /\ "heartbeat" \in ready_io
    /\ ready_io' = ready_io \ {"heartbeat"}
    /\ EnterCallback("heartbeat", "heartbeat", 0)
    /\ UNCHANGED <<timers, ntimers, ready_timers, iter, running, flag_file,
                   hb_watch, systembus_watcher_id,
                   systembus_state, connect_timer_id, dbus_up, gate_quit,
                   handled>>

\* emit_heartbeat_message from the condition test to the return.  wake_ok:
\* the write to the wake-up pipe in dsme_main_loop_quit works; when it fails
\* the process ends in _exit() and the callback never returns.
HbLeave(in, wake_ok) ==
    /\ gpc = "heartbeat"
    /\ IF ~keep_going(in) /\ ~gate_quit /\ ~wake_ok
       THEN /\ gpc' = "exited"
            /\ hb_watch' = FALSE
            /\ UNCHANGED <<gstack, gate_ev, gate_bcast, gate_quit>>
            /\ UNCHANGED <<logvars, mainvars, busvars, rulevars, sockvars, plugvars>>
       ELSE /\ gate_bcast' = IF in.rd = "byte" THEN "HEARTBEAT" ELSE gate_bcast
            /\ hb_watch' = keep_going(in)
            /\ gate_quit' = (gate_quit \/ ~keep_going(in))
            /\ LeaveCallback(IF keep_going(in) THEN "ok" ELSE "error")
    /\ UNCHANGED <<timers, ntimers, ready_timers, ready_io, iter, running,
                   flag_file, systembus_watcher_id, systembus_state,
                   connect_timer_id, dbus_up, handled>>

\* systembus_watcher_cb: caller = modulebase_enter_module(this_module)
WatcherEnter ==
    /\ gpc = "dispatch"
    /\ "watcher" \in ready_io
    /\ ready_io' = ready_io \ {"watcher"}
    /\ EnterCallback("watcher", "dbusautoconnector", 0)
    /\ UNCHANGED <<timers, ntimers, ready_timers, iter, running, flag_file,
                   hb_watch, systembus_watcher_id,
                   systembus_state, connect_timer_id, dbus_up, gate_quit,
                   handled>>

\* systembus_watcher_cb from the condition test to the return.
WatcherLeave(in) ==
    /\ gpc = "watcher"
    /\ (in.update /\ in.present /\ connect_timer_id = 0) => ntimers < MaxTimers
    /\ systembus_watcher_id' = keep_watching(in)
    /\ IF in.rd = "events" /\ in.update
       THEN StateUpdate(in.present, current)
       ELSE UNCHANGED <<systembus_state, timers, ntimers, connect_timer_id,
                        ready_timers, gate_bcast>>
    /\ LeaveCallback(IF keep_watching(in) THEN "ok" ELSE "error")
    /\ UNCHANGED <<ready_io, iter, running, flag_file, hb_watch, dbus_up,
                   gate_quit, handled>>

\* manager_message_filter_cb: caller = modulebase_enter_module(0)
FilterEnter ==
    /\ gpc = "dispatch"
    /\ "dbus" \in ready_io
    /\ ready_io' = ready_io \ {"dbus"}
    /\ EnterCallback("filter", "core", 0)
    /\ UNCHANGED <<timers, ntimers, ready_timers, iter, running, flag_file,
                   hb_watch, systembus_watcher_id,
                   systembus_state, connect_timer_id, dbus_up, gate_quit,
                   handled>>

\* manager_handle_method and manager_handle_signal call a binding:
\* restore = current_module(); if( module ) enter_module(module);
MethodEnter(m) ==
    /\ gpc = "filter"
    /\ gate_ev.path = "none"
    /\ gstack' = <<current>> \o gstack
    /\ current' = m
    /\ gpc' = "method"
    /\ gate_ev' = [gate_ev EXCEPT !.path = "method"]
    /\ UNCHANGED <<timers, ntimers, ready_timers, ready_io, iter, running,
                   flag_file, gate_bcast, hb_watch, systembus_watcher_id,
                   systembus_state, connect_timer_id, dbus_up, gate_quit,
                   handled>>
    /\ UNCHANGED <<modules, bqueue, saved, bpc, delivered, dropped, gone,
                   bsent>>
    /\ UNCHANGED <<logvars, mainvars, rulevars, sockvars, plugvars>>

\* The binding returned: modulebase_enter_module(restore);
MethodLeave ==
    /\ gpc = "method"
    /\ current' = Head(gstack)
    /\ gstack' = Tail(gstack)
    /\ gpc' = "filter"
    /\ UNCHANGED <<timers, ntimers, ready_timers, ready_io, iter, running,
                   gate_ev, flag_file, gate_bcast, hb_watch,
                   systembus_watcher_id, systembus_state, connect_timer_id,
                   dbus_up, gate_quit, handled>>
    /\ UNCHANGED <<modules, bqueue, saved, bpc, delivered, dropped, gone,
                   bsent>>
    /\ UNCHANGED <<logvars, mainvars, rulevars, sockvars, plugvars>>

\* manager_message_filter_cb from the switch to the return.  A message that
\* reached a binding has been through MethodEnter and MethodLeave.
FilterLeave(in) ==
    /\ gpc = "filter"
    /\ gate_ev.path = "method" => in.type \in {"method", "signal"}
    /\ flag_file' = (flag_file \/ (in.type = "Disconnected" /\ in.fopen))
    /\ gate_bcast' = FilterBroadcast(in, gate_bcast)
    /\ LeaveCallback(IF in.type = "Disconnected" THEN
                         (IF in.fopen THEN "disconnected"
                          ELSE "disconnected_nofile")
                     ELSE in.type)
    /\ UNCHANGED <<timers, ntimers, ready_timers, ready_io, iter, running,
                   hb_watch, systembus_watcher_id, systembus_state,
                   connect_timer_id, dbus_up, gate_quit, handled>>

NextGate ==
    \/ \E ok \in BOOLEAN : HeartbeatInit(ok)
    \/ \E w \in BOOLEAN, p \in BOOLEAN : AutoconnectorInit(w, p)
    \/ \E m \in GateModules : GateHandlerEnter(m)
    \/ GateHandlerLeave
    \/ \E i \in {0, 1000}, ok \in BOOLEAN : TimerCreate(i, ok)
    \/ \E t \in 1..MaxTimers : TimerDestroy(t)
    \/ DbusConnect
    \/ \E due \in SUBSET (1..MaxTimers), io \in SUBSET {"heartbeat", "watcher", "dbus"} :
          GateIterate(due, io)
    \/ GateIterationEnd
    \/ \E t \in 1..MaxTimers : TimerEnter(t)
    \/ \E rc \in {0, 1} : TimerReturn(rc)
    \/ HbEnter
    \/ \E in \in BeatInputs, wake_ok \in BOOLEAN : HbLeave(in, wake_ok)
    \/ WatcherEnter
    \/ \E in \in WatcherInputs : WatcherLeave(in)
    \/ FilterEnter
    \/ \E m \in GateModules \cup {"core"} : MethodEnter(m)
    \/ MethodLeave
    \/ \E in \in FilterInputs : FilterLeave(in)

(***************************************************************************)
(* Timers and decisions of the plugins: the connect timer of               *)
(* src/modules/dbusautoconnector.c, the rethink and hold-on timers of      *)
(* src/modules/batterytracker.c and the re-evaluation timer of             *)
(* src/modules/alarmtracker.c.  A callback runs on the main thread from    *)
(* its first statement to its return; dsme_create_timer_seconds attaches a *)
(* glib source and returns its id, which g_source_attach never makes 0 and *)
(* never takes from a source that is still attached.                       *)
(***************************************************************************)
Handles == {"alarmtracker_alarmstate_evaluate_id", "battery_empty_rethink_id",
            "alarm_holdon_id", "connect_timer_id"}

\* #define BATTERY_LEVEL_CRITICAL 1
BATTERY_LEVEL_CRITICAL == 1

\* The level is a percentage; the unknown level lies outside the range.
DSME_BATTERY_LEVEL_UNKNOWN == -1
DSME_BATTERY_LEVEL_MINIMUM == 0
DSME_BATTERY_LEVEL_MAXIMUM == MaxLevel

Levels == (DSME_BATTERY_LEVEL_MINIMUM - 2)..(DSME_BATTERY_LEVEL_MAXIMUM + 1)

\* min_level of the WARNING row as config_load may read it from the
\* configuration file; the built-in value is 3.
Limits == {1, 3}

ChargerStates == {"UNKNOWN", "ON", "OFF"}

DsmeStates == {"NOT_SET", "USER", "ACTDEAD"}

NoPlugEvent == [op |-> "none", bcast |-> "none", d |-> FALSE, stale |-> FALSE]

InitPlug ==
    /\ sources = [i \in 1..MaxIds |-> "none"]
    /\ timer_id = [h \in Handles |-> 0]
    /\ plug_bus_state = "UNKNOWN"
    /\ plug_msgs = {}
    /\ conn_msg = "none"
    /\ dsme_battery_level = DSME_BATTERY_LEVEL_UNKNOWN
    /\ dsme_charger_state = "UNKNOWN"
    /\ dsme_state = "NOT_SET"
    /\ alarm_active = FALSE
    /\ min_level = 3
    /\ shutdown_requested = FALSE
    /\ plug_ev = NoPlugEvent

\* The timers as the helpers below pass them on: the attached sources, the
\* handle variables, and whether dsme_destroy_timer was given an id that
\* names no attached source.
PlugTimers == [src |-> sources, ids |-> timer_id, stale |-> FALSE]

IdFree(T, i) == T.src[i] = "none" /\ \A h \in Handles : T.ids[h] # i

\* The id g_source_attach gives the next source.
FreshId(T) ==
    CHOOSE i \in 1..MaxIds :
        IdFree(T, i) /\ \A j \in 1..(i - 1) : ~IdFree(T, j)

CanCreate(T) == \E i \in 1..MaxIds : IdFree(T, i)

\* h = dsme_create_timer_seconds(...)
create_timer(T, h) ==
    LET i == FreshId(T) IN
    [T EXCEPT !.src[i] = h, !.ids[h] = i]

\* dsme_destroy_timer(id): g_source_remove
destroy_timer(T, id) ==
    IF id = 0 THEN T
    ELSE IF T.src[id] = "none" THEN [T EXCEPT !.stale = TRUE]
    ELSE [T EXCEPT !.src[id] = "none"]

\* if( !h ) h = dsme_create_timer_seconds(...): connect_timer_start,
\* alarm_holdon_start, battery_empty_schedule_rethink,
\* alarmtracker_alarmstate_schedule_evaluate
schedule(T, h) ==
    IF T.ids[h] = 0 THEN create_timer(T, h) ELSE T

\* if( h ) dsme_destroy_timer(h), h = 0: connect_timer_stop,
\* alarm_holdon_cancel, battery_empty_cancel_rethink,
\* alarmtracker_alarmstate_cancel_evaluate
cancel(T, h) ==
    IF T.ids[h] # 0
    THEN [destroy_timer(T, T.ids[h]) EXCEPT !.ids[h] = 0]
    ELSE T

\* Variant: the callback leaves the handle as it is.
HandleInCallback_kept(T, h) == T

\* The first statement of the callbacks that return 0: h = 0;
HandleInCallback(T, h) == [T EXCEPT !.ids[h] = 0]

\* The callback of source i returned 0: glib destroys the source.
expire(T, i) == [T EXCEPT !.src[i] = "none"]

SetTimers(T) ==
    /\ sources' = T.src
    /\ timer_id' = T.ids

OnlyPlug ==
    UNCHANGED <<logvars, mainvars, busvars, rulevars, sockvars, gatevars>>

\* systembus_state_update with access() saying 'present'.
systembus_state_update(present) ==
    LET new == IF present THEN "PRESENT" ELSE "MISSING"
        start == new # plug_bus_state /\ present
        stop == new # plug_bus_state /\ ~present
        request == start /\ timer_id["connect_timer_id"] = 0
        T == IF start THEN schedule(PlugTimers, "connect_timer_id")
             ELSE IF stop THEN cancel(PlugTimers, "connect_timer_id")
             ELSE PlugTimers
    IN
    /\ request => CanCreate(PlugTimers)
    /\ plug_bus_state' = new
    /\ SetTimers(T)
    /\ plug_msgs' = IF request THEN plug_msgs \cup {"DBUS_CONNECT"}
                    ELSE plug_msgs
    /\ conn_msg' = IF start THEN "none" ELSE conn_msg
    /\ plug_ev' = [op |-> IF start THEN "appear" ELSE "update",
                   bcast |-> IF request THEN "DBUS_CONNECT" ELSE "none",
                   d |-> FALSE, stale |-> T.stale]
    /\ UNCHANGED <<dsme_battery_level, dsme_charger_state, dsme_state,
                   alarm_active, min_level, shutdown_requested>>
    /\ OnlyPlug

\* dbusautoconnector.c module_init: systembus_state_update after the watcher
\* was started.
AutoconnectorLoad(present) ==
    /\ plug_bus_state = "UNKNOWN"
    /\ systembus_state_update(present)

\* systembus_watcher_cb saw an event that names the bus socket.
SocketEvent(present) ==
    /\ plug_bus_state # "UNKNOWN"
    /\ systembus_state_update(present)

\* connect_timer_cb: connect_request(); return TRUE;
ConnectTimerCb(i) ==
    /\ sources[i] = "connect_timer_id"
    /\ plug_msgs' = plug_msgs \cup {"DBUS_CONNECT"}
    /\ plug_ev' = [op |-> "tick", bcast |-> "DBUS_CONNECT", d |-> FALSE,
                   stale |-> FALSE]
    /\ UNCHANGED <<sources, timer_id, plug_bus_state, conn_msg,
                   dsme_battery_level, dsme_charger_state, dsme_state,
                   alarm_active, min_level, shutdown_requested>>
    /\ OnlyPlug

\* The handler of DBUS_CONNECT in dbusproxy.c: dsme_dbus_connect broadcasts
\* DBUS_CONNECTED when manager_connect returns true.  plug_msgs holds the
\* types that wait in the queue, not how many of each.
DbusproxyConnect(ok) ==
    /\ "DBUS_CONNECT" \in plug_msgs
    /\ plug_msgs' = (plug_msgs \ {"DBUS_CONNECT"})
                    \cup (IF ok THEN {"DBUS_CONNECTED"} ELSE {})
    /\ plug_ev' = [op |-> "connect", bcast |-> IF ok THEN "DBUS_CONNECTED"
                                               ELSE "none",
                   d |-> FALSE, stale |-> FALSE]
    /\ UNCHANGED <<sources, timer_id, plug_bus_state, conn_msg,
                   dsme_battery_level, dsme_charger_state, dsme_state,
                   alarm_active, min_level, shutdown_requested>>
    /\ OnlyPlug

\* A client (dsmetool) sends DBUS_DISCONNECT.
ClientDisconnect ==
    /\ "DBUS_DISCONNECT" \notin plug_msgs
    /\ plug_msgs' = plug_msgs \cup {"DBUS_DISCONNECT"}
    /\ plug_ev' = NoPlugEvent
    /\ UNCHANGED <<sources, timer_id, plug_bus_state, conn_msg,
                   dsme_battery_level, dsme_charger_state, dsme_state,
                   alarm_active, min_level, shutdown_requested>>
    /\ OnlyPlug

\* Variant: the handlers leave the connect timer running.
StopOnMessage_not(T) == T

\* The handlers of DBUS_CONNECTED and DBUS_DISCONNECT in
\* dbusautoconnector.c: connect_timer_stop();
StopOnMessage(T) == cancel(T, "connect_timer_id")

ConnHandler(m) ==
    LET T == StopOnMessage(PlugTimers) IN
    /\ m \in plug_msgs \cap {"DBUS_CONNECTED", "DBUS_DISCONNECT"}
    /\ plug_msgs' = plug_msgs \ {m}
    /\ SetTimers(T)
    /\ conn_msg' = m
    /\ plug_ev' = [op |-> "handler", bcast |-> "none", d |-> FALSE,
                   stale |-> T.stale]
    /\ UNCHANGED <<plug_bus_state, dsme_battery_level, dsme_charger_state,
                   dsme_state, alarm_active, min_level, shutdown_requested>>
    /\ OnlyPlug

condition_battery_is_empty(level, limit) ==
    IF level = DSME_BATTERY_LEVEL_UNKNOWN THEN FALSE
    ELSE IF level < DSME_BATTERY_LEVEL_MINIMUM
            \/ level > DSME_BATTERY_LEVEL_MAXIMUM THEN FALSE
    ELSE IF level >= limit THEN FALSE
    ELSE TRUE

condition_charging_is_on(charger) == charger = "ON"

\* Variant: the critical level counts in every device dstate.
condition_level_is_critical_any(dstate, level) ==
    level <= BATTERY_LEVEL_CRITICAL

condition_level_is_critical(dstate, level) ==
    dstate # "ACTDEAD" /\ level <= BATTERY_LEVEL_CRITICAL

\* request_shutdown as battery_empty_rethink_cb computes it.
request_shutdown(level, limit, alarm, charger, dstate) ==
    LET r1 == ~alarm
        r2 == IF r1 /\ condition_charging_is_on(charger) THEN FALSE ELSE r1
        r3 == IF ~r2 /\ condition_level_is_critical(dstate, level) THEN TRUE
              ELSE r2
    IN IF condition_battery_is_empty(level, limit) THEN r3 ELSE FALSE

\* batterytracker.c module_init, before any handler of the plugin runs:
\* config_load() found a valid configuration file.
BatteryLoad(limit) ==
    /\ plug_ev = NoPlugEvent
    /\ min_level' = limit
    /\ plug_ev' = [NoPlugEvent EXCEPT !.op = "load"]
    /\ UNCHANGED <<sources, timer_id, plug_bus_state, plug_msgs, conn_msg,
                   dsme_battery_level, dsme_charger_state, dsme_state,
                   alarm_active, shutdown_requested>>
    /\ OnlyPlug

\* A setter of batterytracker.c saw a new value:
\* battery_empty_schedule_rethink();
Rethink(op) ==
    LET T == schedule(PlugTimers, "battery_empty_rethink_id") IN
    /\ timer_id["battery_empty_rethink_id"] = 0 => CanCreate(PlugTimers)
    /\ SetTimers(T)
    /\ plug_ev' = [op |-> op, bcast |-> "none", d |-> FALSE,
                   stale |-> T.stale]
    /\ UNCHANGED <<plug_bus_state, plug_msgs, conn_msg, min_level,
                   shutdown_requested>>
    /\ OnlyPlug

\* dsme_battery_level_set
LevelSet(level) ==
    /\ level # dsme_battery_level
    /\ dsme_battery_level' = level
    /\ Rethink("set")
    /\ UNCHANGED <<dsme_charger_state, dsme_state, alarm_active>>

\* dsme_charger_state_set
ChargerSet(charger) ==
    /\ charger # dsme_charger_state
    /\ dsme_charger_state' = charger
    /\ Rethink("set")
    /\ UNCHANGED <<dsme_battery_level, dsme_state, alarm_active>>

\* dsme_state_set from the handler of STATE_CHANGE_IND
StateSet(dstate) ==
    /\ dstate # dsme_state
    /\ dstate # "NOT_SET"
    /\ dsme_state' = dstate
    /\ Rethink("set")
    /\ UNCHANGED <<dsme_battery_level, dsme_charger_state, alarm_active>>

\* alarm_active_set(active) on the timers T
alarm_active_set(T, active) ==
    IF alarm_active = active THEN T
    ELSE schedule(IF active THEN schedule(T, "alarm_holdon_id")
                  ELSE cancel(T, "alarm_holdon_id"),
                  "battery_empty_rethink_id")

\* The handler of SET_ALARM_STATE: alarm_active_set(msg->alarm_set);
AlarmSet(active) ==
    LET T == alarm_active_set(PlugTimers, active) IN
    /\ active # alarm_active
    /\ Cardinality({i \in 1..MaxIds : IdFree(PlugTimers, i)})
           >= (IF active /\ timer_id["alarm_holdon_id"] = 0 THEN 1 ELSE 0)
              + (IF timer_id["battery_empty_rethink_id"] = 0 THEN 1 ELSE 0)
    /\ alarm_active' = active
    /\ SetTimers(T)
    /\ plug_ev' = [op |-> "set", bcast |-> "none", d |-> FALSE,
                   stale |-> T.stale]
    /\ UNCHANGED <<plug_bus_state, plug_msgs, conn_msg, dsme_battery_level,
                   dsme_charger_state, dsme_state, min_level,
                   shutdown_requested>>
    /\ OnlyPlug

\* battery_empty_rethink_cb, run for source i; it returns 0.
RethinkCb(i) ==
    LET d == request_shutdown(dsme_battery_level, min_level, alarm_active,
                              dsme_charger_state, dsme_state)
        T == expire(HandleInCallback(PlugTimers, "battery_empty_rethink_id"),
                    i)
    IN
    /\ sources[i] = "battery_empty_rethink_id"
    /\ shutdown_requested' = d
    /\ SetTimers(T)
    /\ plug_ev' = [op |-> "rethink",
                   bcast |-> IF shutdown_requested # d
                             THEN "SET_BATTERY_STATE" ELSE "none",
                   d |-> d, stale |-> T.stale]
    /\ UNCHANGED <<plug_bus_state, plug_msgs, conn_msg, dsme_battery_level,
                   dsme_charger_state, dsme_state, alarm_active, min_level>>
    /\ OnlyPlug

\* alarm_holdon_cb, run for source i: alarm_active_set(false); return 0;
HoldonCb(i) ==
    LET T == expire(alarm_active_set(HandleInCallback(PlugTimers,
                                                      "alarm_holdon_id"),
                                     FALSE), i)
    IN
    /\ sources[i] = "alarm_holdon_id"
    /\ CanCreate(PlugTimers)
    /\ alarm_active' = FALSE
    /\ SetTimers(T)
    /\ plug_ev' = [op |-> "holdon", bcast |-> "none", d |-> FALSE,
                   stale |-> T.stale]
    /\ UNCHANGED <<plug_bus_state, plug_msgs, conn_msg, dsme_battery_level,
                   dsme_charger_state, dsme_state, min_level,
                   shutdown_requested>>
    /\ OnlyPlug

\* alarmtracker_alarmstate_evaluate on the timers T.  far: the next alarm
\* is further away than the snooze threshold.
alarmstate_evaluate(T, far) ==
    LET T1 == cancel(T, "alarmtracker_alarmstate_evaluate_id") IN
    IF far THEN schedule(T1, "alarmtracker_alarmstate_evaluate_id") ELSE T1

\* alarmtracker_alarmtime_update or alarmtracker_dsmestate_update saw a new
\* value: alarmtracker_alarmstate_evaluate();
Evaluate(far) ==
    LET T == alarmstate_evaluate(PlugTimers, far) IN
    /\ CanCreate(PlugTimers)
    /\ SetTimers(T)
    /\ plug_ev' = [op |-> "evaluate", bcast |-> "none", d |-> FALSE,
                   stale |-> T.stale]
    /\ UNCHANGED <<plug_bus_state, plug_msgs, conn_msg, dsme_battery_level,
                   dsme_charger_state, dsme_state, alarm_active, min_level,
                   shutdown_requested>>
    /\ OnlyPlug

\* alarmtracker_alarmstate_evaluate_cb, run for source i; it returns 0.
EvaluateCb(i, far) ==
    LET T == expire(alarmstate_evaluate(
                        HandleInCallback(PlugTimers,
                            "alarmtracker_alarmstate_evaluate_id"), far), i)
    IN
    /\ sources[i] = "alarmtracker_alarmstate_evaluate_id"
    /\ CanCreate(PlugTimers)
    /\ SetTimers(T)
    /\ plug_ev' = [op |-> "evaluate_cb", bcast |-> "none", d |-> FALSE,
                   stale |-> T.stale]
    /\ UNCHANGED <<plug_bus_state, plug_msgs, conn_msg, dsme_battery_level,
                   dsme_charger_state, dsme_state, alarm_active, min_level,
                   shutdown_requested>>
    /\ OnlyPlug

NextConn ==
    \/ \E present \in BOOLEAN : AutoconnectorLoad(present)
    \/ \E present \in BOOLEAN : SocketEvent(present)
    \/ \E i \in 1..MaxIds : ConnectTimerCb(i)
    \/ \E ok \in BOOLEAN : DbusproxyConnect(ok)
    \/ ClientDisconnect
    \/ \E m \in {"DBUS_CONNECTED", "DBUS_DISCONNECT"} : ConnHandler(m)

NextBattery ==
    \/ \E limit \in Limits : BatteryLoad(limit)
    \/ \E level \in Levels : LevelSet(level)
    \/ \E charger \in ChargerStates : ChargerSet(charger)
    \/ \E dstate \in DsmeStates : StateSet(dstate)
    \/ \E active \in BOOLEAN : AlarmSet(active)
    \/ \E i \in 1..MaxIds : RethinkCb(i)
    \/ \E i \in 1..MaxIds : HoldonCb(i)

\* The steps that create, cancel or fire a timer of the plugins; of the
\* setters of batterytracker.c, which all end in the same
\* battery_empty_schedule_rethink(), the one of the charger state.
NextTimers ==
    \/ \E present \in BOOLEAN : AutoconnectorLoad(present)
    \/ \E present \in BOOLEAN : SocketEvent(present)
    \/ \E i \in 1..MaxIds : ConnectTimerCb(i)
    \/ \E ok \in BOOLEAN : DbusproxyConnect(ok)
    \/ ConnHandler("DBUS_CONNECTED")
    \/ \E charger \in ChargerStates : ChargerSet(charger)
    \/ \E active \in BOOLEAN : AlarmSet(active)
    \/ \E i \in 1..MaxIds : RethinkCb(i)
    \/ \E i \in 1..MaxIds : HoldonCb(i)
    \/ \E far \in BOOLEAN : Evaluate(far)
    \/ \E i \in 1..MaxIds, far \in BOOLEAN : EvaluateCb(i, far)

(***************************************************************************)
(* Specifications                                                          *)
(***************************************************************************)
Init ==
    InitLog /\ InitMain /\ InitBus /\ InitRules /\ InitSock /\ InitGate
    /\ InitPlug

NextLog ==
    \/ Queue
    \/ \E wr_ok \in BOOLEAN : QueueStore(wr_ok)
    \/ QueueOut
    \/ \E ok \in BOOLEAN : LogInit(ok)
    \/ \E ok \in BOOLEAN, dbg \in BOOLEAN : LogOpen(ok, dbg)
    \/ LogClose
    \/ LogStop
    \/ LogJoin
    \/ LogFlush
    \/ LogClosed
    \/ \E rc \in {"ok", "err"} : WorkerRead(rc)
    \/ WorkerPop
    \/ WorkerDone

SpecLog == Init /\ [][NextLog]_vars

SpecMain == Init /\ [][NextMain]_vars

SpecBus == Init /\ [][NextBus]_vars

SpecRules == Init /\ [][NextRules]_vars

SpecSock == Init /\ [][NextSock]_vars

SpecGate == Init /\ [][NextGate]_vars

SpecPrio == Init /\ [][NextPrio]_vars

SpecConn == Init /\ [][NextConn]_vars

SpecBattery == Init /\ [][NextBattery]_vars

SpecTimers == Init /\ [][NextTimers]_vars

\* The shutdown loop is not interrupted: dsmesock_shutdown runs on the main
\* thread from main().
SpecSockFair ==
    SpecSock /\ WF_vars(ShutdownPass) /\ WF_vars(ShutdownEnd)

(***************************************************************************)
(* Properties                                                              *)
(***************************************************************************)
InCall == {"fmt_lost", "out_lost", "fmt_msg", "out_msg"}

CallReturned == {"idle", "stop"}

\* Entries the main thread is reading or writing right now.
MainAccess ==
    IF lpc \in InCall THEN {entry}
    ELSE IF lpc = "flush" /\ at # write_count_pvt THEN {Slot(at)}
    ELSE {}

MainWrites == lpc \in {"fmt_lost", "fmt_msg"}

\* Entries the logger thread is reading right now.
WorkerAccess == IF wpc = "routine" THEN {wentry} ELSE {}

\* C1: in every reachable logger state write_count >= read_count and
\* write_count - read_count <= capacity (128).
RingCountsBounded ==
    /\ write_count_pvt >= read_count_pvt
    /\ write_count_pvt - read_count_pvt <= 128

\* C1 witness: the ring is full while the logger thread is popping.
RingFullWhilePopping ==
    /\ write_count_pvt - read_count_pvt = 128
    /\ wpc = "routine"
    /\ calls > Burst

\* C2: a queue call made while the occupancy equals the capacity writes no
\* slot, does not advance write_count, sets the overflow flag, counts the
\* message as dropped and returns at once, without entering the sink.
QueueAtCapacityDrops ==
    [][(calls' = calls + 1 /\ write_count_pvt - read_count_pvt = 128)
         => /\ ring_buffer' = ring_buffer
            /\ write_count_pvt' = write_count_pvt
            /\ overflow'
            /\ skipped' = skipped + 1
            /\ entry' = -1
            /\ lpc' \in CallReturned]_vars

\* C2 witness: a call was dropped at capacity and has returned.
DroppedAtCapacity ==
    /\ write_count_pvt - read_count_pvt = 128
    /\ overflow
    /\ skipped >= 1
    /\ lpc = "idle"

\* C3: once the logger thread is disabled, every queue call (the one whose
\* eventfd write failed included) writes its message to the sink on the main
\* thread before it returns: it is not dropped, and once its entry is stored
\* the main thread is inside the sink routine with it.
DisabledCallsAreSynchronous ==
    [][/\ (calls' = calls + 1 /\ ~thread_enabled) => lpc' \in {"fmt_lost", "fmt_msg"}
       /\ (lpc = "fmt_msg" /\ write_count_pvt' # write_count_pvt /\ ~thread_enabled')
            => lpc' = "out_msg"]_vars

\* C5 as stated: no ring buffer entry is accessed by the main thread and by
\* the logger thread at the same time.
NoSharedEntry == MainAccess \cap WorkerAccess = {}

\* C5 amended: the main thread never writes an entry the logger thread is
\* reading, and inside a queue call the two threads never hold the same
\* entry; only the flush of dsme_log_close may read an entry the logger
\* thread is still reading, after the join of dsme_log_stop gave up.
NoSharedEntryOutsideFlush ==
    (MainAccess \cap WorkerAccess # {}) => (lpc = "flush" /\ ~thread_enabled /\ ~worker_tid)

\* C5 witness: the main thread formats an entry while the logger thread
\* reads another one, after the write position has wrapped around.
BothThreadsInRing ==
    /\ MainWrites
    /\ wpc = "routine"
    /\ write_count_pvt >= 128
    /\ entry # wentry

\* C6: after an overflow, queue calls are dropped and counted while the
\* occupancy is at least 7/8 of the capacity; the first call made below it
\* stores the notice "N messages lost" immediately before its own message,
\* N being the number of calls dropped since the overflow began, and the
\* overflow flag and the drop counter are clear when the message is stored.
NoticeInRing ==
    LET w == write_count_pvt
        lo == IF w - 127 > 1 THEN w - 127 ELSE 1
    IN /\ (w >= 1 /\ w <= 128) => ring_buffer[0].kind = "msg"
       /\ \A j \in lo..(w - 1) :
            ring_buffer[j % 128].kind = "lost" =>
               /\ ring_buffer[(j - 1) % 128].kind = "msg"
               /\ IF j + 1 < w
                  THEN /\ ring_buffer[(j + 1) % 128].kind = "msg"
                       /\ ring_buffer[j % 128].val =
                            ring_buffer[(j + 1) % 128].val - ring_buffer[(j - 1) % 128].val - 1
                  ELSE /\ lpc \in {"out_lost", "fmt_msg"}
                       /\ ring_buffer[j % 128].val = calls - ring_buffer[(j - 1) % 128].val - 1

OverflowCleared ==
    /\ lpc \in {"fmt_msg", "out_msg"} => (~overflow /\ skipped = 0)
    /\ ~overflow => skipped = 0

HoldOrInject ==
    (calls' = calls + 1 /\ overflow) =>
        IF write_count_pvt - read_count_pvt >= (128 * 7) \div 8
        THEN /\ skipped' = skipped + 1
             /\ overflow'
             /\ write_count_pvt' = write_count_pvt
             /\ ring_buffer' = ring_buffer
             /\ lpc' \in CallReturned
        ELSE /\ lpc' = "fmt_lost"
             /\ entry' = write_count_pvt % 128
             /\ skipped' = skipped

\* C6: the ring holds each notice right before the message of the call
\* that stored it, with the number of calls dropped in between, and every
\* call made during an overflow is either dropped and counted (occupancy at
\* least 7/8) or starts storing the notice (occupancy below 7/8).
OverflowRecovery == [](NoticeInRing /\ OverflowCleared) /\ [][HoldOrInject]_vars

\* C6 witness: a call has stored the notice and its own message and returned.
NoticeStored ==
    /\ lpc = "idle"
    /\ ~overflow
    /\ write_count_pvt >= 2
    /\ ring_buffer[(write_count_pvt - 2) % 128].kind = "lost"
    /\ ring_buffer[(write_count_pvt - 1) % 128] = MsgEntry(calls)

\* C7, the burst: of Burst (200) queue calls made while the worker is
\* stalled the first 128 are stored and the others only add to the drop
\* counter.
BurstStored ==
    calls = Burst =>
        /\ write_count_pvt = 128
        /\ overflow
        /\ skipped = Burst - 128
        /\ \A i \in 0..127 : ring_buffer[i] = MsgEntry(i + 1)

\* What the next call leaves behind when it injects the notice.
BurstNoticeStored ==
    calls = Burst + 1 =>
        /\ write_count_pvt >= 129 => ring_buffer[0] = LostEntry(Burst - 128)
        /\ write_count_pvt >= 130 => ring_buffer[1] = MsgEntry(Burst + 1)
        /\ (lpc \in CallReturned /\ write_count_pvt > 128)
              => (write_count_pvt = 130 /\ ~overflow /\ skipped = 0)

BurstNextCall(limit) ==
    (calls = Burst /\ calls' = Burst + 1) =>
        IF write_count_pvt - read_count_pvt <= limit
        THEN /\ lpc' = "fmt_lost"
             /\ entry' = 0
             /\ skipped' = Burst - 128
        ELSE /\ skipped' = Burst - 128 + 1
             /\ overflow'
             /\ write_count_pvt' = 128
             /\ ring_buffer' = ring_buffer

\* C7 as stated: the next call made once the occupancy is at most 112
\* (112 included) stores the notice with lost-count 72, then the message.
Scenario3AtMost112 ==
    [](BurstStored /\ BurstNoticeStored) /\ [][BurstNextCall(112)]_vars

\* C7 amended: the next call stores the notice with lost-count 72 and then
\* the message when the occupancy is below 112 (at most 111); made at
\* occupancy 112 or more it is dropped and raises the count to 73.
Scenario3Below112 ==
    [](BurstStored /\ BurstNoticeStored) /\ [][BurstNextCall(111)]_vars

\* C7 witness: call 201 has stored the notice with count 72 and its message.
Scenario3Recovered ==
    /\ calls = Burst + 1
    /\ lpc = "idle"
    /\ write_count_pvt = 130
    /\ read_count_pvt >= 17
    /\ ring_buffer[0] = LostEntry(Burst - 128)
    /\ ring_buffer[1] = MsgEntry(Burst + 1)

Max2(a, b) == IF a < b THEN b ELSE a

\* C4: after quit(c1) followed by quit(c2), exit_code() equals max(c1, c2).
ExitCodeIsMaxOfQuits ==
    (Len(quits) = 2 /\ mpc # "quit" /\ status = -1)
        => mainloop_exit_code = Max2(quits[1], quits[2])

\* C8: whenever the heartbeat callback sees an error/hang-up condition, EOF,
\* an unrecoverable read error or a failed pong write, it calls
\* quit(EXIT_FAILURE) and stops watching stdin.
BeatFailure(in) ==
    in.cond = "ERR" \/ in.rd \in {"eof", "error"} \/ in.wr = "fail"

\* C8: every heartbeat callback run on a failure input appends a
\* quit(EXIT_FAILURE) call and leaves the stdin watch removed.
HeartbeatFailureQuits ==
    [][(beats' = beats + 1 /\ BeatFailure(hb'))
         => /\ quits' = Append(quits, 1)
            /\ ~watch_id']_vars

\* C9: the state only moves NOT_STARTED -> RUNNING -> STOPPED, the run loop
\* is entered at most once per process, and run has returned only if quit
\* was called and stopped the loop.
StateOneWay ==
    state' # state =>
        \/ (state = "NOT_STARTED" /\ state' = "RUNNING")
        \/ (state = "RUNNING" /\ state' = "STOPPED")

RunOnce ==
    /\ loops <= 1
    /\ mpc = "returned" => (state = "STOPPED" /\ Len(quits) > 0 /\ loops = 1)

\* C9: the loop is entered at most once, run has returned only after a quit
\* stopped the loop, and every state change is a forward step.
MainloopLifecycle == []RunOnce /\ [][StateOneWay]_vars

\* C9 witness: run was called a second time after it had returned.
RunCalledTwice ==
    /\ runs = 2
    /\ mpc = "returned"
    /\ state = "STOPPED"

\* C10: the main thread is never blocked in the event demultiplexer (inside
\* g_main_context_iteration with no source known to be ready) while the
\* message queue is non-empty or while the state is not RUNNING.
NeverBlockedWithWork ==
    mpc = "poll" =>
        /\ msg_queue = <<>>
        /\ state = "RUNNING" \/ (mainloop_wakeup_id /\ pipe_bytes > 0)

\* C10 witness: the main thread blocks after a drain that also delivered
\* messages broadcast by handlers during that drain.
BlockedAfterDrain ==
    /\ mpc = "poll"
    /\ state = "RUNNING"
    /\ sent = MaxMsgs
    /\ msg_queue = <<>>

\* The step in which signal_handler runs for SIGINT or SIGTERM while the
\* mainloop state is RUNNING.
TermWhileRunning ==
    /\ signals' = signals + 1
    /\ Len(quits') = Len(quits) + 1
    /\ state = "RUNNING"

GracefulTeardown ==
    (got_term /\ status # -1) =>
        /\ status = 0
        /\ teardown = <<"socket", "modules", "logger">>
        /\ clients = 0
        /\ ~listen_id
        /\ ~modules_loaded

\* C11: when SIGTERM or SIGINT is handled while the mainloop is RUNNING, the
\* handler writes one byte to the self-pipe and returns; when the process
\* then ends it has shut down the client socket (no client left), unloaded
\* the plugins and closed the logger, in this order, and its exit code is 0.
GracefulShutdown ==
    /\ []GracefulTeardown
    /\ [][TermWhileRunning => (/\ pipe_bytes' = pipe_bytes + 1
                               /\ mpc' = mpc
                               /\ status' = -1)]_vars

\* The start-up steps whose failure main() treats as fatal.
FatalSteps == {"log_init", "parse", "modules", "listen"}

FatalStepStops ==
    (failed_steps \cap FatalSteps # {}) =>
        /\ runs = 0
        /\ state = "NOT_STARTED"
        /\ status \in {-1, 1}
        /\ mpc \in {"EXIT", "exited"}

TolerantStepGoesOn ==
    (\E n \in {"signals", "oom", "sched", "log_open"} :
        n \in failed_steps' /\ n \notin failed_steps)
    => (mpc' \notin {"EXIT", "exited"} /\ status' = -1)

SameInvocationPair(i, j) ==
    /\ delivered[i].to = delivered[j].to
    /\ delivered[i].inv > 0
    /\ delivered[i].inv = delivered[j].inv
    /\ delivered[i].id < delivered[j].id

\* C13: handlers are called in the order in which the messages were queued,
\* and when one handler invocation broadcasts A and then B, a module that
\* receives both has its handler called for A before it is called for B.
FifoDelivery ==
    \A i, j \in 1..Len(delivered) :
        /\ i < j => delivered[i].id <= delivered[j].id
        /\ SameInvocationPair(i, j) => i < j

\* C13 witness: a module has received A and B of one handler invocation.
ReceivedBoth ==
    \E i, j \in 1..Len(delivered) : SameInvocationPair(i, j)

\* C14: a message broadcast during a handler invocation carries as sender
\* the module whose handler was running.
SenderIsCurrentModule ==
    \A q \in {bqueue[i] : i \in 1..Len(bqueue)}
             \cup {delivered[i] : i \in 1..Len(delivered)} \cup dropped :
        q.inv > 0 => q.sender = delivered[q.inv].to

\* C14 witness: a message broadcast by the handler of m2 is queued while the
\* dispatcher is back in the core context.
HandlerBroadcastQueued ==
    /\ bpc = "drain"
    /\ current = "core"
    /\ \E i \in 1..Len(bqueue) : bqueue[i].inv > 0 /\ bqueue[i].sender = "m2"

\* C15: no handler of a module is called after the module was unloaded; a
\* queued message whose target has been unloaded is dropped when its turn
\* comes and no handler is called for it.
NoDispatchAfterUnload ==
    /\ [](\A m \in gone : m \notin Loaded)
    /\ [][/\ delivered' # delivered => delivered'[Len(delivered')].to \notin gone
          /\ (bpc = "drain" /\ bqueue # <<>> /\ Head(bqueue).to \in gone)
                => (/\ delivered' = delivered
                    /\ Head(bqueue) \in dropped'
                    /\ bpc' = "drain")]_vars

\* C15 witness: a message queued for m1 before m1 was unloaded has been
\* dropped, and a later copy for m2 was delivered.
DroppedAfterUnload ==
    /\ "m1" \in gone
    /\ \E d \in dropped : d.to = "m1"
    /\ \E i \in 1..Len(delivered) : delivered[i].to = "m2"

\* The copies queued by the step, in queue order.
NewCopies == SubSeq(bqueue', Len(bqueue) + 1, Len(bqueue'))

\* C28: a broadcast made by a module from its init hook is queued for every
\* module loaded before it and for no other, the module itself included, so
\* its own handler is never called for it.
InitBroadcastReachesEarlier ==
    /\ [][(Len(modules') > Len(modules) /\ bsent' # bsent) =>
             /\ Len(NewCopies) = Len(modules)
             /\ \A i \in 1..Len(modules) :
                   /\ NewCopies[i].to = modules[i]
                   /\ NewCopies[i].sender = modules'[Len(modules')]]_vars
    /\ [](\A i \in 1..Len(delivered) :
             delivered[i].inv = 0 => delivered[i].to # delivered[i].sender)

\* C28 witness: m1 was loaded before m2, m2 broadcast from its init hook,
\* the handler of m1 has been called for that message and the queue is
\* empty again.
InitBroadcastDelivered ==
    /\ modules = <<"m1", "m2">>
    /\ bqueue = <<>>
    /\ bpc = "idle"
    /\ \E i \in 1..Len(delivered) :
          /\ delivered[i].sender = "m2"
          /\ delivered[i].inv = 0
          /\ delivered[i].to = "m1"

\* The filter result for a rule state: INCLUDED lets the message through,
\* EXCLUDED does not, anything else leaves it to the verbosity.
Resolve(st, prio) ==
    IF st = "INCLUDED" THEN TRUE
    ELSE IF st = "EXCLUDED" THEN FALSE
    ELSE prio <= verbosity

\* C16: the result of every log_predicate call equals the direct evaluation
\* of the current rule list, whatever the cache holds.
CacheAgreesWithRules ==
    asked # NoCall =>
        answer = Resolve(FirstMatch(dsme_log_rule_list, Key(asked.file, asked.func)),
                         asked.prio)

\* C16 witness: the predicate has answered with two keys in the cache and
\* two rules in the list.
AnsweredWithCache ==
    /\ asked # NoCall
    /\ Cardinality(dsme_log_rule_cache.tab) >= 2
    /\ Len(dsme_log_rule_list) >= 2
    /\ \E e \in dsme_log_rule_cache.tab :
          e.key = Key(asked.file, asked.func) /\ e.hit # "UNKNOWN"

\* The rules whose glob matches the string s.
Matching(s) ==
    {i \in 1..Len(dsme_log_rule_list) : fnmatch(dsme_log_rule_list[i].pattern, s)}

\* The most recently added of them.
Latest(s) ==
    CHOOSE i \in Matching(s) :
        \A k \in Matching(s) : dsme_log_rule_list[k].n <= dsme_log_rule_list[i].n

ByLatestRule(s, prio) ==
    \/ (Matching(s) # {} /\ dsme_log_rule_list[Latest(s)].state = "INCLUDED")
    \/ (Matching(s) = {} /\ prio <= verbosity)

\* C17: log_predicate(priority, file, func) is true exactly when the most
\* recently added rule whose glob matches "file:func" is an INCLUDED rule,
\* or no rule matches and priority <= verbosity.
PredicateByLatestRule ==
    asked # NoCall =>
        (answer <=> ByLatestRule(asked.file \o <<":">> \o asked.func, asked.prio))

\* C18: a message queued before dsme_log_init is written to the sink
\* synchronously by the queue call, and exactly once over the lifetime of the
\* process; the used-before-init warning is printed at most once.
EarlyMessageWrittenOnce ==
    /\ [](\A i \in 1..Len(early_out) :
            /\ early_out[i] <= 1
            /\ (early_out[i] = 0 => (lpc = "out_msg" /\ i = Len(early_out))))
    /\ [][reported => reported']_vars

QueuedBeats == {i \in 1..Len(msg_queue) : msg_queue[i].type = "HEARTBEAT"}

\* C20: for every ping byte the heartbeat callback reads, exactly one byte is
\* written to stdout and exactly one HEARTBEAT message is broadcast, and that
\* message has been delivered before the mainloop next blocks.
PingAnswered ==
    /\ [][(beats' = beats + 1 /\ hb'.rd = "byte") =>
              /\ hb'.wr = "ok"
              /\ msg_queue' = Append(msg_queue,
                                     [type |-> "HEARTBEAT", id |-> sent + 1])]_vars
    /\ [](mpc = "poll" => QueuedBeats = {})

Live == {sock_clients[i] : i \in 1..Len(sock_clients)}

\* The connection is gone: not in the list, no watch, fd closed, object freed.
TornDown(c) ==
    /\ c \notin Live
    /\ c \notin client_src
    /\ conn[c].fd = "closed"
    /\ ~conn[c].obj
    /\ conn[c].channel = 0

\* C21: when accept_client has run for a connect readiness event, either the
\* new connection is in the live set with its input watch attached and the
\* kernel's credentials (or the sentinel) recorded, or a step failed, nothing
\* of the connection is left and the accept watch is still installed.
AcceptOutcome ==
    (spc = "idle" /\ sock_ev.kind = "accept" /\ sock_ev.in.cnd = "IN") =>
        LET c == sock_ev.c
            in == sock_ev.in
        IN /\ accept_src /\ sock_listen_id
           /\ \/ /\ in.fail = "none"
                 /\ c \in Live
                 /\ c \in client_src
                 /\ conn[c].fd = "open"
                 /\ conn[c].channel = c
                 /\ conn[c].ucred = IF in.cred.ok THEN in.cred.val ELSE Sentinel
              \/ /\ in.fail # "none"
                 /\ c > 0 => TornDown(c)

\* C21 witness: the first connection is live with sentinel credentials and
\* the second one was torn down because its watch could not be attached.
AcceptedAndRejected ==
    /\ spc = "idle"
    /\ sock_ev.kind = "accept"
    /\ sock_ev.in.fail = "watch"
    /\ sock_ev.c = 2
    /\ TornDown(2)
    /\ 1 \in Live
    /\ conn[1].ucred = Sentinel

\* C22: when handle_client has run and the read callback asked to close, or
\* the read gave no message because of EOF, an error or a bad length, or
\* the condition was an error or hang-up, the connection is gone.
HandleClosesOnFailure ==
    (/\ spc = "idle"
     /\ sock_ev.kind = "handle"
     /\ \/ sock_ev.in.cnd # "IN"
        \/ sock_ev.in.msg.type \in {"CLOSE", "none"}) => TornDown(sock_ev.c)

\* C23: the credentials of a connection do not change while its object
\* exists.
CredentialsImmutable ==
    [][\A c \in 1..MaxConns :
          (conn[c].obj /\ conn'[c].obj) => conn'[c].ucred = conn[c].ucred]_vars

\* C23 witness: a connection with kernel credentials is still live after a
\* message was read from it.
LiveAfterRead ==
    /\ sock_ev.kind = "handle"
    /\ sock_ev.keep
    /\ sock_ev.in.msg # NoMsg
    /\ conn[sock_ev.c].obj
    /\ conn[sock_ev.c].ucred \in Creds

\* C24: dsmesock_shutdown returns, and then the accept watch is gone, the
\* live set is empty, no input watch is installed and no connection has an
\* open fd.
ShutdownClosesAll ==
    /\ (spc = "closing") ~> (spc = "down")
    /\ [](spc = "down" =>
            /\ ~accept_src
            /\ ~sock_listen_id
            /\ sock_clients = <<>>
            /\ client_src = {}
            /\ \A c \in 1..MaxConns : conn[c].fd # "open" /\ ~conn[c].obj)

\* C24 witness: the shutdown is over and the connection accepted by the last
\* callback, live when the shutdown began, is closed.
ShutDownWithClients ==
    /\ spc = "down"
    /\ sock_ev.kind = "accept"
    /\ sock_ev.in.fail = "none"
    /\ sock_ev.c = 2
    /\ TornDown(2)
    /\ conn[1].fd = "closed"

\* C30: when the socket callback has returned for a set-logging-verbosity
\* message carrying v in EMERG..DEBUG, the message was broadcast with the
\* client as sender and the verbosity of the logger is v.
VerbosityFromClient ==
    (/\ spc = "idle"
     /\ lpc = "idle"
     /\ sock_ev.kind = "handle"
     /\ sock_ev.in.msg.type = "SET_LOGGING_VERBOSITY"
     /\ sock_ev.in.msg.v \in LOG_EMERG..LOG_DEBUG) =>
        /\ verbosity = sock_ev.in.msg.v
        /\ sock_bcast = [type |-> "SET_LOGGING_VERBOSITY", sender |-> sock_ev.c]

\* C30 witness: a client has set the verbosity to 5 after it had been 3.
VerbositySetByClient ==
    /\ spc = "idle"
    /\ lpc = "idle"
    /\ sock_ev.kind = "handle"
    /\ sock_ev.in.msg.type = "SET_LOGGING_VERBOSITY"
    /\ sock_ev.in.msg.v = 5
    /\ verbosity = 5
    /\ calls = 2
    /\ rule_ops = 2
    /\ dsme_log_rule_list = <<>>
    /\ ~dsme_log_rule_cache.made

\* C25: a timer callback runs with the module that was current when the
\* timer was created as the current module, and when it returns, whatever it
\* returns, the current module is the one from before the dispatch.
TimerRunsInCreatorContext ==
    /\ [](gpc = "timer_cb" => current = timers[running].made_in)
    /\ [][gpc = "timer_cb" /\ gpc' # "timer_cb" => current' = gate_ev.entry]_vars

\* A timer made by a plugin has fired, returned 0, and the core is current.
TimerFiredAndReturned ==
    /\ gpc = "dispatch"
    /\ gate_ev.kind = "timer_cb"
    /\ gate_ev.path = "stop"
    /\ gate_ev.inside = "batterytracker"
    /\ timers[gate_ev.t].made_in = "batterytracker"
    /\ current = "core"

\* C27: a timer created with interval zero has its callback invoked neither
\* inside the create call nor inside the mainloop pass during which it was
\* created; it fires in a later pass.
ZeroTimerFiresLater ==
    [][/\ \A t \in 1..MaxTimers :
            (timers[t].st = "none" /\ timers'[t].st # "none"
             /\ timers'[t].tg_interval = 0)
            => (running' = running /\ gpc' = gpc)
       /\ (gpc = "dispatch" /\ gpc' = "timer_cb"
           /\ timers[running'].tg_interval = 0)
          => ~timers[running'].fresh]_vars

\* A zero interval timer that a D-Bus method handler created during a pass
\* is firing.
ZeroTimerFired ==
    /\ gpc = "timer_cb"
    /\ timers[running].made_at = "method"
    /\ timers[running].tg_interval = 0
    /\ timers[running].made_in = "batterytracker"
    /\ ~timers[running].fresh

\* C26: the heartbeat input callback, the system bus watcher and the D-Bus
\* message filter leave the current module equal to the one that was
\* current when they were entered, on every exit path.
CallbacksRestoreModule ==
    [][(gpc \in {"heartbeat", "watcher", "filter"} /\ gpc' = "dispatch")
       => current' = gate_ev.entry]_vars

\* The system bus watcher has left on an error path with the entry module
\* current again.
WatcherLeftOnError ==
    /\ gpc = "dispatch"
    /\ gate_ev.kind = "watcher"
    /\ gate_ev.path = "error"
    /\ gate_ev.inside = "dbusautoconnector"
    /\ ~systembus_watcher_id
    /\ current = gate_ev.entry

\* C29 as stated: when the connection reports Disconnected the flag file is
\* written and a reboot request is broadcast.
DisconnectWritesFlagAndReboots ==
    [][(gpc = "filter" /\ gpc' = "dispatch"
        /\ gate_ev'.path \in {"disconnected", "disconnected_nofile"})
       => (flag_file' /\ gate_bcast' = "REBOOT_REQ")]_vars

\* C29 amended: when the connection reports Disconnected a reboot request is
\* broadcast in every case, and the flag file exists afterwards whenever it
\* could be opened for writing.
DisconnectRebootsAndTriesFlag ==
    [][(gpc = "filter" /\ gpc' = "dispatch"
        /\ gate_ev'.path \in {"disconnected", "disconnected_nofile"})
       => /\ gate_bcast' = "REBOOT_REQ"
          /\ gate_ev'.path = "disconnected" => flag_file']_vars

\* Disconnected was handled while the flag file could not be opened.
DisconnectedWithoutFlag ==
    /\ gpc = "dispatch"
    /\ gate_ev.kind = "filter"
    /\ gate_ev.path = "disconnected_nofile"
    /\ gate_bcast = "REBOOT_REQ"
    /\ ~flag_file

\* C31: after a rule was added and all rules were then cleared, the
\* predicate answers (p <= verbosity) for every priority, file and function.
ClearRestoresDefault ==
    /\ [][(rule_ops' # rule_ops /\ cleared_rules' # <<>>)
          => \A p \in Priorities, f \in FileNames, g \in FuncNames :
                dsme_log_p_(p, f, g)' = (p <= verbosity')]_vars
    /\ []((cleared_rules # <<>> /\ asked # NoCall)
          => (answer = (asked.prio <= verbosity)))

\* The predicate was asked after a clear that removed an include rule
\* matching the caller, with a priority above the verbosity, and said no.
AskedAfterClear ==
    /\ cleared_rules # <<>>
    /\ asked # NoCall
    /\ asked.prio > verbosity
    /\ ~answer
    /\ \E i \in 1..Len(cleared_rules) :
          /\ cleared_rules[i].state = "INCLUDED"
          /\ fnmatch(cleared_rules[i].pattern, Key(asked.file, asked.func))

\* C32: every log entry and the verbosity hold a priority within
\* LOG_EMERG..LOG_DEBUG; a priority below LOG_EMERG is stored as LOG_EMERG,
\* one above LOG_DEBUG as LOG_DEBUG.
PrioritiesClamped ==
    /\ verbosity \in LOG_EMERG..LOG_DEBUG
    /\ prio_ev.op # "none" =>
          /\ prio_ev.out \in LOG_EMERG..LOG_DEBUG
          /\ prio_ev.in < LOG_EMERG => prio_ev.out = LOG_EMERG
          /\ prio_ev.in > LOG_DEBUG => prio_ev.out = LOG_DEBUG
    /\ prio_ev.op \in {"set_verbosity", "open"} => verbosity = prio_ev.out

\* An entry was formatted with a priority above LOG_DEBUG while the
\* verbosity is the LOG_EMERG that an argument below the range left.
ClampedBothWays ==
    /\ verbosity = LOG_EMERG
    /\ prio_ev.op = "entry"
    /\ prio_ev.in > LOG_DEBUG
    /\ prio_ev.out = LOG_DEBUG

\* C33: a SIGINT or SIGTERM delivered at any point after the handlers were
\* installed is registered as a stop request without ending the process, and
\* when only such requests were made and the start-up did not fail, the
\* process ends with exit code 0.
TermAlwaysGraceful ==
    /\ [][(signals' = signals + 1 /\ Len(quits') = Len(quits) + 1)
          => (state' = "STOPPED" /\ status' = -1)]_vars
    /\ []((/\ quits # <<>>
           /\ \A i \in 1..Len(quits) : quits[i] = EXIT_SUCCESS
           /\ failed_steps \cap FatalSteps = {}
           /\ status # -1)
          => status = 0)

\* C34: a message that a queue call stored in the ring buffer is never
\* written to the sink twice, and once dsme_log_close has returned it has
\* been written.
StoredMessageWrittenOnce ==
    /\ rewritten = {}
    /\ lpc = "closed" => unwritten = {}

\* C35: messages reach the sink in the order in which they were queued: a
\* message is written for the first time only when no message queued before
\* it is still waiting in the ring buffer.
SinkKeepsQueueOrder ==
    [][\A m \in unwritten \ unwritten' : \A k \in unwritten : k >= m]_vars

\* C36: whenever main() has closed the logger on its way out, no plugin is
\* still loaded: the plugins that were loaded have been shut down before.
PluginsDownBeforeLoggerClosed ==
    (teardown # <<>> /\ teardown[Len(teardown)] = "logger")
    => ~modules_loaded




ConnectPending ==
    /\ timer_id["connect_timer_id"] # 0
    /\ sources[timer_id["connect_timer_id"]] = "connect_timer_id"

\* C37: while dbusautoconnector has seen the bus socket present and has
\* handled neither DBUS_CONNECTED nor DBUS_DISCONNECT since, its connect
\* timer is pending, and the step that sees the socket appear broadcasts
\* DBUS_CONNECT at once; once DBUS_CONNECTED was handled, the only step that
\* broadcasts DBUS_CONNECT is one that sees the missing socket appear again.
ConnectRetriedUntilAnswered ==
    /\ []((plug_bus_state = "PRESENT" /\ conn_msg = "none")
            => ConnectPending)
    /\ [][(plug_bus_state # "PRESENT" /\ plug_bus_state' = "PRESENT")
            => plug_ev'.bcast = "DBUS_CONNECT"]_vars
    /\ [][(conn_msg = "DBUS_CONNECTED" /\ plug_ev'.bcast = "DBUS_CONNECT")
            => (plug_bus_state = "MISSING" /\ plug_bus_state' = "PRESENT")]_vars

\* DBUS_CONNECTED was handled while the socket is present: the retries ended.
ConnectedAndQuiet ==
    /\ conn_msg = "DBUS_CONNECTED"
    /\ plug_bus_state = "PRESENT"
    /\ timer_id["connect_timer_id"] = 0
    /\ plug_ev.op = "handler"

\* The decision as the claim words it, with a charger that has to be off.
DecisionChargerOff(level, limit, alarm, charger, dstate) ==
    /\ level # DSME_BATTERY_LEVEL_UNKNOWN
    /\ level >= DSME_BATTERY_LEVEL_MINIMUM
    /\ level <= DSME_BATTERY_LEVEL_MAXIMUM
    /\ level < limit
    /\ \/ ~alarm /\ charger = "OFF"
       \/ dstate # "ACTDEAD" /\ level <= BATTERY_LEVEL_CRITICAL

\* The same decision with a charger that is not known to be on.
DecisionChargerNotOn(level, limit, alarm, charger, dstate) ==
    /\ level # DSME_BATTERY_LEVEL_UNKNOWN
    /\ level >= DSME_BATTERY_LEVEL_MINIMUM
    /\ level <= DSME_BATTERY_LEVEL_MAXIMUM
    /\ level < limit
    /\ \/ ~alarm /\ charger # "ON"
       \/ dstate # "ACTDEAD" /\ level <= BATTERY_LEVEL_CRITICAL

\* C38 as stated: a battery re-evaluation broadcasts SET_BATTERY_STATE(d)
\* exactly when d differs from the decision broadcast last, d being true
\* when the level is known, valid and below the limit and either no alarm is
\* active and the charger is off, or the device is not in ACTDEAD and the
\* level is critical.
RethinkBroadcastsChargerOff ==
    [][plug_ev'.op = "rethink" =>
        LET d == DecisionChargerOff(dsme_battery_level, min_level,
                                    alarm_active, dsme_charger_state,
                                    dsme_state)
        IN /\ (plug_ev'.bcast = "SET_BATTERY_STATE") = (d # shutdown_requested)
           /\ plug_ev'.d = d
           /\ shutdown_requested' = d]_vars

\* C38, amended: the same with "the charger is not on" in the place of "the
\* charger is off": a charger whose state is unknown does not hold the
\* shutdown back.
RethinkBroadcastsDecision ==
    [][plug_ev'.op = "rethink" =>
        LET d == DecisionChargerNotOn(dsme_battery_level, min_level,
                                      alarm_active, dsme_charger_state,
                                      dsme_state)
        IN /\ (plug_ev'.bcast = "SET_BATTERY_STATE") = (d # shutdown_requested)
           /\ plug_ev'.d = d
           /\ shutdown_requested' = d]_vars

\* A re-evaluation asked for the shutdown while the charger state was not
\* known.
ShutdownWithUnknownCharger ==
    /\ plug_ev.op = "rethink"
    /\ plug_ev.bcast = "SET_BATTERY_STATE"
    /\ plug_ev.d
    /\ dsme_charger_state = "UNKNOWN"
    /\ dsme_state = "ACTDEAD"

\* C39: each handle of a plugin timer is non-zero exactly while the timer
\* made for it is attached, no purpose has two timers, and
\* dsme_destroy_timer is never given the id of a timer that is gone.
HandlesNamePendingTimers ==
    /\ \A h \in Handles :
          timer_id[h] # 0 => sources[timer_id[h]] = h
    /\ \A i \in 1..MaxIds :
          sources[i] # "none" => timer_id[sources[i]] = i
    /\ ~plug_ev.stale

\* The re-evaluation timer expired and its callback made the next one while
\* the connect timer and the hold-on timer are pending.
ExpiredAndRescheduled ==
    /\ plug_ev.op = "evaluate_cb"
    /\ timer_id["alarmtracker_alarmstate_evaluate_id"] # 0
    /\ timer_id["connect_timer_id"] # 0
    /\ timer_id["alarm_holdon_id"] # 0


\* Wake-ups the worker has yet to consume: the eventfd counter and what is
\* left of the batch it is working on.
PendingWakeups == event_count + cnt

\* C40: while the logger thread is enabled, the wake-ups the worker has yet
\* to consume never exceed the number of entries in the ring buffer, and the
\* worker at the head of its loop finds an entry to take.
WakeupsWithinOccupancy ==
    thread_enabled =>
        /\ PendingWakeups <= buffered_count
        /\ wpc = "loop" => buffered_count > 0

\* The worker is inside a batch, more wake-ups have arrived since, and every
\* entry of the ring buffer has its wake-up.
BatchAndNewWakeups ==
    /\ thread_enabled
    /\ wpc = "loop"
    /\ cnt > 0
    /\ event_count > 0
    /\ PendingWakeups = buffered_count

====
